---- MODULE Spec2Model ----
(***************************************************************************)
(* A model of the pygreensense rule engine: the DeadCode, MutableDefault-  *)
(* Arguments, GodClass, LongMethod and DuplicatedCode rules and the        *)
(* smell-LOC aggregation of the CLI.                                       *)
(* Syntax trees are records shaped like Python's ast nodes; ast.walk is    *)
(* the breadth-first traversal Walk; every rule is an operator over trees, *)
(* and every entry point (check, check_project, ...) is an action.         *)
(***************************************************************************)
EXTENDS Integers, Sequences, FiniteSets, TLC

VARIABLES
    tree,             \* the parsed file handed to check(tree)
    issues,           \* the list returned by the last rule call
    call,             \* the last entry point called, with its arguments
    fs,               \* the file system: path -> source tree, Unparsable or Absent
    project_root,     \* DeadCodeRule.project_root
    all_definitions,  \* DeadCodeRule.all_definitions: file -> definitions dict
    all_usages,       \* DeadCodeRule.all_usages: file -> set of names
    all_imports,      \* DeadCodeRule.all_imports: file -> set of names
    is_project_mode,  \* DeadCodeRule.is_project_mode
    max_methods,      \* GodClassRule.max_methods
    max_cc,           \* GodClassRule.max_cc
    max_loc,          \* GodClassRule.max_loc
    all_results,      \* the CLI's file -> issues mapping
    total_loc,        \* the result of count_total_loc_code_smells
    long_max_loc,     \* LongMethodRule.max_loc
    long_max_cc,      \* LongMethodRule.max_cc
    similarity_threshold,     \* DuplicatedCodeRule.similarity_threshold
    min_statements,           \* DuplicatedCodeRule.min_statements
    check_within_functions,   \* DuplicatedCodeRule.check_within_functions
    check_between_functions   \* DuplicatedCodeRule.check_between_functions

vars == <<tree, issues, call, fs, project_root, all_definitions, all_usages,
          all_imports, is_project_mode, max_methods, max_cc, max_loc,
          all_results, total_loc, long_max_loc, long_max_cc,
          similarity_threshold, min_statements, check_within_functions,
          check_between_functions>>

deadVars == <<fs, project_root, all_definitions, all_usages, all_imports,
              is_project_mode>>
godVars == <<max_methods, max_cc, max_loc>>
cliVars == <<all_results, total_loc>>
longVars == <<long_max_loc, long_max_cc>>
dupVars == <<similarity_threshold, min_statements, check_within_functions,
             check_between_functions>>

(***************************************************************************)
(* Python values                                                           *)
(***************************************************************************)
None == "<None>"

Max(a, b) == IF a >= b THEN a ELSE b

Last(s) == s[Len(s)]

RECURSIVE Concat(_)
Concat(ss) == IF ss = <<>> THEN <<>> ELSE Head(ss) \o Concat(Tail(ss))

RECURSIVE SumSeq(_)
SumSeq(s) == IF s = <<>> THEN 0 ELSE Head(s) + SumSeq(Tail(s))

\* Body applied to value, with value computed once
Once(value, Body(_)) == CHOOSE r \in {Body(x) : x \in {value}} : TRUE

SelectSeqIdx(s, Test(_)) ==
    LET F[i \in 0..Len(s)] ==
            IF i = 0 THEN <<>>
            ELSE IF Test(i) THEN Append(F[i - 1], i) ELSE F[i - 1]
    IN  F[Len(s)]

\* str.startswith(prefix) for a one-character prefix
startswith(name, prefix) == Len(name) >= 1 /\ SubSeq(name, 1, 1) = prefix

(***************************************************************************)
(* ast nodes.  Every node is a record with its kind and the fields of the  *)
(* Python node class that the rules read; lineno/end_lineno are the source *)
(* span.  A statement's end_lineno is the last line of its last child.     *)
(***************************************************************************)
EndOf(lineno, stmts) ==
    IF stmts = <<>> THEN lineno ELSE Max(lineno, Last(stmts).end_lineno)

Name(id, ctx, l) ==
    [kind |-> "Name", id |-> id, ctx |-> ctx, lineno |-> l, end_lineno |-> l]
Attribute(value, attr, ctx, l) ==
    [kind |-> "Attribute", value |-> value, attr |-> attr, ctx |-> ctx,
     lineno |-> l, end_lineno |-> l]
Call(func, l) ==
    [kind |-> "Call", func |-> func, lineno |-> l, end_lineno |-> l]
\* the Python values a constant holds, tagged with their type
PyStr(s) == [py |-> "str", s |-> s]
PyNone == [py |-> "NoneType"]
PyInt(n) == [py |-> "int", n |-> n]
Constant(value, l) ==
    [kind |-> "Constant", value |-> value, lineno |-> l, end_lineno |-> l]
\* List, Dict, Set, Tuple displays and calls such as list()
Display(kind, l) ==
    [kind |-> kind, lineno |-> l, end_lineno |-> l]
BoolOp(values, l) ==
    [kind |-> "BoolOp", values |-> values, lineno |-> l, end_lineno |-> l]
comprehension(ifs) ==
    [kind |-> "comprehension", ifs |-> ifs]
ListComp(generators, l) ==
    [kind |-> "ListComp", generators |-> generators, lineno |-> l,
     end_lineno |-> l]
alias(name, asname) ==
    [kind |-> "alias", name |-> name, asname |-> asname]
arguments(defaults, kw_defaults) ==
    [kind |-> "arguments", defaults |-> defaults, kw_defaults |-> kw_defaults]

Simple(kind, l) ==
    [kind |-> kind, lineno |-> l, end_lineno |-> l]
Return(l) == Simple("Return", l)
Raise(l) == Simple("Raise", l)
Break(l) == Simple("Break", l)
Continue(l) == Simple("Continue", l)
Pass(l) == Simple("Pass", l)
Expr(value, l) ==
    [kind |-> "Expr", value |-> value, lineno |-> l, end_lineno |-> l]
Assign(targets, value, l) ==
    [kind |-> "Assign", targets |-> targets, value |-> value, lineno |-> l,
     end_lineno |-> l]
AssertStmt(test, l) ==
    [kind |-> "Assert", test |-> test, lineno |-> l, end_lineno |-> l]
Import(names, l) ==
    [kind |-> "Import", names |-> names, lineno |-> l, end_lineno |-> l]
ImportFrom(names, l) ==
    [kind |-> "ImportFrom", names |-> names, lineno |-> l, end_lineno |-> l]
\* FunctionDef and AsyncFunctionDef
FunctionDef(kind, name, args, body, l) ==
    [kind |-> kind, name |-> name, args |-> args, body |-> body,
     lineno |-> l, end_lineno |-> EndOf(l, body)]
ClassDef(name, body, l) ==
    [kind |-> "ClassDef", name |-> name, body |-> body, lineno |-> l,
     end_lineno |-> EndOf(l, body)]
\* If, While, For, AsyncFor: a test (or iterable), a body and an else list
Branch(kind, test, body, orelse, l) ==
    [kind |-> kind, test |-> test, body |-> body, orelse |-> orelse,
     lineno |-> l, end_lineno |-> EndOf(EndOf(l, body), orelse)]
\* With, AsyncWith
With(kind, body, l) ==
    [kind |-> kind, body |-> body, lineno |-> l, end_lineno |-> EndOf(l, body)]
ExceptHandler(body, l) ==
    [kind |-> "ExceptHandler", body |-> body, lineno |-> l,
     end_lineno |-> EndOf(l, body)]
Try(body, handlers, orelse, finalbody, l) ==
    [kind |-> "Try", body |-> body, handlers |-> handlers, orelse |-> orelse,
     finalbody |-> finalbody, lineno |-> l,
     end_lineno |->
        EndOf(EndOf(EndOf(EndOf(l, body), handlers), orelse), finalbody)]
Module(body) ==
    [kind |-> "Module", body |-> body]

\* ast.iter_child_nodes: the child nodes in the order of the class's _fields
iter_child_nodes(node) ==
    CASE node.kind = "Module" -> node.body
      [] node.kind \in {"FunctionDef", "AsyncFunctionDef"} ->
            <<node.args>> \o node.body
      [] node.kind = "arguments" -> node.kw_defaults \o node.defaults
      [] node.kind = "ClassDef" -> node.body
      [] node.kind \in {"If", "While", "For", "AsyncFor"} ->
            <<node.test>> \o node.body \o node.orelse
      [] node.kind \in {"With", "AsyncWith"} -> node.body
      [] node.kind = "Try" ->
            node.body \o node.handlers \o node.orelse \o node.finalbody
      [] node.kind = "ExceptHandler" -> node.body
      [] node.kind = "Expr" -> <<node.value>>
      [] node.kind = "Assign" -> node.targets \o <<node.value>>
      [] node.kind = "Assert" -> <<node.test>>
      [] node.kind \in {"Import", "ImportFrom"} -> node.names
      [] node.kind = "Attribute" -> <<node.value>>
      [] node.kind = "Call" -> <<node.func>>
      [] node.kind = "BoolOp" -> node.values
      [] node.kind = "ListComp" -> node.generators
      [] node.kind = "comprehension" -> node.ifs
      [] OTHER -> <<>>

\* ast.walk: breadth-first over a queue, the node first and then its children
RECURSIVE walkQueue(_)
walkQueue(todo) ==
    IF todo = <<>> THEN <<>>
    ELSE <<Head(todo)>> \o walkQueue(Tail(todo) \o iter_child_nodes(Head(todo)))

walk(node) == walkQueue(<<node>>)

(***************************************************************************)
(* Python dict with insertion order: a sequence of <<key, value>> pairs    *)
(* with distinct keys.  d[k] = v keeps the position of an existing key.    *)
(***************************************************************************)
DictKeys(d) == {d[i][1] : i \in 1..Len(d)}

DictGet(d, k) == d[CHOOSE i \in 1..Len(d) : d[i][1] = k][2]

DictSet(d, k, v) ==
    IF k \in DictKeys(d)
    THEN [i \in 1..Len(d) |-> IF d[i][1] = k THEN <<k, v>> ELSE d[i]]
    ELSE Append(d, <<k, v>>)

DictValues(d) == [i \in 1..Len(d) |-> d[i][2]]

(***************************************************************************)
(* DeadCodeRule (rules/dead_code.py)                                       *)
(***************************************************************************)
DeadCodeName == "DeadCode"

RECURSIVE assignTargets(_, _)
assignTargets(definitions, targets) ==
    IF targets = <<>> THEN definitions
    ELSE LET target == Head(targets)
         IN  assignTargets(
                 IF target.kind = "Name"
                 THEN DictSet(definitions, target.id,
                              <<"variable", target.lineno, target.end_lineno>>)
                 ELSE definitions,
                 Tail(targets))

RECURSIVE collectDefinitionsFrom(_, _)
collectDefinitionsFrom(definitions, nodes) ==
    IF nodes = <<>> THEN definitions
    ELSE LET node == Head(nodes)
             next ==
                IF node.kind = "FunctionDef"
                THEN DictSet(definitions, node.name,
                             <<"function", node.lineno, node.end_lineno>>)
                ELSE IF node.kind = "ClassDef"
                THEN DictSet(definitions, node.name,
                             <<"class", node.lineno, node.end_lineno>>)
                ELSE IF node.kind = "Assign"
                THEN assignTargets(definitions, node.targets)
                ELSE definitions
         IN  collectDefinitionsFrom(next, Tail(nodes))

\* name -> (type, lineno, end_lineno), over every node of the tree
_collect_definitions(t) == collectDefinitionsFrom(<<>>, walk(t))

\* usageOf without the attribute-access branch
usageOf_noAttribute(node) ==
    IF node.kind = "Name" /\ node.ctx = "Load" THEN {node.id}
    ELSE IF node.kind = "Call"
    THEN IF node.func.kind = "Name" THEN {node.func.id}
         ELSE IF node.func.kind = "Attribute" THEN {node.func.attr}
         ELSE {}
    ELSE {}

\* the names a node adds to the usage set
usageOf(node) ==
    IF node.kind = "Name" /\ node.ctx = "Load" THEN {node.id}
    ELSE IF node.kind = "Attribute" THEN {node.attr}
    ELSE IF node.kind = "Call"
    THEN IF node.func.kind = "Name" THEN {node.func.id}
         ELSE IF node.func.kind = "Attribute" THEN {node.func.attr}
         ELSE {}
    ELSE {}

_collect_usage(t) ==
    LET nodes == walk(t)
    IN  UNION {usageOf(nodes[i]) : i \in 1..Len(nodes)}

\* alias.asname if alias.asname else alias.name
importedName(a) == IF a.asname # None THEN a.asname ELSE a.name

importsOf(node) ==
    IF node.kind \in {"ImportFrom", "Import"}
    THEN {importedName(node.names[i]) : i \in 1..Len(node.names)}
    ELSE {}

_collect_imports(t) ==
    LET nodes == walk(t)
    IN  UNION {importsOf(nodes[i]) : i \in 1..Len(nodes)}

UnusedMessage(def_type, name) ==
    <<"Unused ", def_type, " '", name,
      "' is never referenced. Suggest removing it.">>

\* the issues _check_unused appends, in the order of the definitions dict
RECURSIVE _check_unused(_, _, _)
_check_unused(defined, used, imports) ==
    IF defined = <<>> THEN <<>>
    ELSE LET name == Head(defined)[1]
             def == Head(defined)[2]
             rest == _check_unused(Tail(defined), used, imports)
         IN  IF startswith(name, "_") THEN rest
             ELSE IF name \in imports THEN rest
             ELSE IF name \notin used
             THEN <<[rule |-> DeadCodeName, lineno |-> def[2],
                     end_lineno |-> def[3],
                     message |-> UnusedMessage(def[1], name)]>> \o rest
             ELSE rest

\* exit()/quit() by name, or any attribute call named exit
_is_terminator(stmt) ==
    IF stmt.kind = "Return" THEN TRUE
    ELSE IF stmt.kind = "Raise" THEN TRUE
    ELSE IF stmt.kind \in {"Break", "Continue"} THEN TRUE
    ELSE IF stmt.kind = "Expr" /\ stmt.value.kind = "Call"
    THEN IF stmt.value.func.kind = "Name"
         THEN stmt.value.func.id \in {"exit", "quit"}
         ELSE IF stmt.value.func.kind = "Attribute"
         THEN stmt.value.func.attr = "exit"
         ELSE FALSE
    ELSE FALSE

\* index is the 0-based position of stmt in its list
_is_docstring(stmt, index) ==
    /\ index = 0
    /\ stmt.kind = "Expr"
    /\ stmt.value.kind = "Constant"
    /\ stmt.value.value.py = "str"

UnreachableMessage(terminator_line) ==
    <<"Unreachable code after statement at line ", ToString(terminator_line),
      ". Consider removing it.">>

\* UnreachableIssue with the file attached whenever the rule is in project mode
UnreachableIssue_modeOnly(stmt, terminator_line, file_path, project_mode) ==
    LET issue == [rule |-> DeadCodeName, lineno |-> stmt.lineno,
                  end_lineno |-> stmt.end_lineno,
                  message |-> UnreachableMessage(terminator_line)]
    IN  IF project_mode
        THEN [f \in DOMAIN issue \cup {"file"} |->
                IF f = "file" THEN file_path ELSE issue[f]]
        ELSE issue

UnreachableIssue(stmt, terminator_line, file_path, project_mode) ==
    LET issue == [rule |-> DeadCodeName, lineno |-> stmt.lineno,
                  end_lineno |-> stmt.end_lineno,
                  message |-> UnreachableMessage(terminator_line)]
    IN  IF file_path # None /\ project_mode
        THEN [f \in DOMAIN issue \cup {"file"} |->
                IF f = "file" THEN file_path ELSE issue[f]]
        ELSE issue

\* bodyScan without the break after the first report
RECURSIVE bodyScan_noBreak(_, _, _, _, _, _)
bodyScan_noBreak(body, i, terminator_found, terminator_line, file_path, project_mode) ==
    IF i >= Len(body) THEN <<>>
    ELSE LET stmt == body[i + 1]
         IN  IF _is_terminator(stmt)
             THEN bodyScan_noBreak(body, i + 1, TRUE, stmt.lineno, file_path,
                                   project_mode)
             ELSE IF terminator_found /\ ~_is_docstring(stmt, i)
             THEN <<UnreachableIssue(stmt, terminator_line, file_path,
                                     project_mode)>>
                  \o bodyScan_noBreak(body, i + 1, terminator_found,
                                      terminator_line, file_path, project_mode)
             ELSE bodyScan_noBreak(body, i + 1, terminator_found,
                                   terminator_line, file_path, project_mode)

\* the loop of _check_body_reachability from 0-based index i on
RECURSIVE bodyScan(_, _, _, _, _, _)
bodyScan(body, i, terminator_found, terminator_line, file_path, project_mode) ==
    IF i >= Len(body) THEN <<>>
    ELSE LET stmt == body[i + 1]
         IN  IF _is_terminator(stmt)
             THEN bodyScan(body, i + 1, TRUE, stmt.lineno, file_path,
                           project_mode)
             ELSE IF terminator_found /\ ~_is_docstring(stmt, i)
             THEN <<UnreachableIssue(stmt, terminator_line, file_path,
                                     project_mode)>>
             ELSE bodyScan(body, i + 1, terminator_found, terminator_line,
                           file_path, project_mode)

\* the issues one call appends for one statement list
_check_body_reachability(body, file_path, project_mode) ==
    bodyScan(body, 0, FALSE, None, file_path, project_mode)

ScannedKinds == {"FunctionDef", "For", "While", "If", "With", "Try"}

\* the statement lists of one compound node, in the order they are scanned
subLists(node) ==
    IF node.kind \notin ScannedKinds THEN <<>>
    ELSE <<node.body>>
         \o (IF "orelse" \in DOMAIN node /\ node.orelse # <<>>
             THEN <<node.orelse>> ELSE <<>>)
         \o (IF "handlers" \in DOMAIN node
             THEN [h \in 1..Len(node.handlers) |-> node.handlers[h].body]
             ELSE <<>>)
         \o (IF "finalbody" \in DOMAIN node /\ node.finalbody # <<>>
             THEN <<node.finalbody>> ELSE <<>>)

\* every statement list _check_unreachable scans, in scan order
scannedLists(t) ==
    LET nodes == walk(t)
    IN  Concat([i \in 1..Len(nodes) |-> subLists(nodes[i])])

_check_unreachable(t, file_path, project_mode) ==
    LET lists == scannedLists(t)
    IN  Concat([i \in 1..Len(lists) |->
                  _check_body_reachability(lists[i], file_path, project_mode)])

\* DeadCodeRule.check(tree): unused definitions, then unreachable code
DeadCode_check(t, project_mode) ==
    _check_unused(_collect_definitions(t), _collect_usage(t),
                  _collect_imports(t))
    \o _check_unreachable(t, None, project_mode)

(***************************************************************************)
(* State after construction of the rule objects                           *)
(***************************************************************************)
\* a path of the file system holds a Module, an unparsable source, or nothing
Absent == [kind |-> "absent"]
Unparsable == [kind |-> "unparsable"]

\* the *.py paths of the modelled file system, as sequences of components
Paths == {<<"proj", "a.py">>, <<"proj", "sub", "b.py">>}
Roots == {<<"proj">>, <<"proj", "sub">>}

DeadCodeRule_init ==
    /\ project_root = None
    /\ all_definitions = <<>>
    /\ all_usages = <<>>
    /\ all_imports = <<>>
    /\ is_project_mode = FALSE

GodClassRule_init ==
    /\ max_methods = 10
    /\ max_cc = 35
    /\ max_loc = 100

Cli_init ==
    /\ all_results = <<>>
    /\ total_loc = 0

\* LongMethodRule() with its default thresholds
LongMethodRule_init ==
    /\ long_max_loc = 30
    /\ long_max_cc = 10

\* a ratio p/q, the model's float
Ratio(p, q) == [num |-> p, den |-> q]

\* DuplicatedCodeRule() with its default configuration
DuplicatedCodeRule_init ==
    /\ similarity_threshold = Ratio(85, 100)
    /\ min_statements = 3
    /\ check_within_functions = TRUE
    /\ check_between_functions = TRUE

NoCall == [op |-> "none"]

(***************************************************************************)
(* Single-file dead-code check: check(tree) on every module of up to       *)
(* MaxStmts top-level statements drawn from DeadTemplates.                 *)
(***************************************************************************)
MaxStmts == 3

NoArgs == arguments(<<>>, <<>>)

DeadTemplates ==
    {"def helper", "class helper", "helper = 1", "def _private",
     "class other", "helper", "obj.helper", "helper()", "obj.helper()",
     "from m import helper", "from m import helper as y",
     "import x as helper", "async def helper", "nested def helper"}

\* the statement a template stands for, placed at line l (its body at l + 1)
DeadStmt(template, l) ==
    CASE template = "def helper" ->
            FunctionDef("FunctionDef", "helper", NoArgs, <<Pass(l + 1)>>, l)
      [] template = "class helper" -> ClassDef("helper", <<Pass(l + 1)>>, l)
      [] template = "helper = 1" ->
            Assign(<<Name("helper", "Store", l)>>, Constant(PyInt(1), l), l)
      [] template = "def _private" ->
            FunctionDef("FunctionDef", "_private", NoArgs, <<Pass(l + 1)>>, l)
      [] template = "class other" -> ClassDef("other", <<Pass(l + 1)>>, l)
      [] template = "helper" -> Expr(Name("helper", "Load", l), l)
      [] template = "obj.helper" ->
            Expr(Attribute(Name("obj", "Load", l), "helper", "Load", l), l)
      [] template = "helper()" -> Expr(Call(Name("helper", "Load", l), l), l)
      [] template = "obj.helper()" ->
            Expr(Call(Attribute(Name("obj", "Load", l), "helper", "Load", l),
                      l), l)
      [] template = "from m import helper" ->
            ImportFrom(<<alias("helper", None)>>, l)
      [] template = "from m import helper as y" ->
            ImportFrom(<<alias("helper", "y")>>, l)
      [] template = "import x as helper" -> Import(<<alias("x", "helper")>>, l)
      [] template = "async def helper" ->
            FunctionDef("AsyncFunctionDef", "helper", NoArgs, <<Pass(l + 1)>>,
                        l)
      [] template = "nested def helper" ->
            FunctionDef("FunctionDef", "_outer", NoArgs,
                <<FunctionDef("FunctionDef", "helper", NoArgs,
                              <<Pass(l + 1)>>, l + 1)>>, l)

\* top-level statement i starts at line 2i - 1
ModuleOf(templates) ==
    Module([i \in 1..Len(templates) |-> DeadStmt(templates[i], 2 * i - 1)])

\* the sequences of at most max templates
TemplateSeqs(templates, max) == UNION {[1..n -> templates] : n \in 0..max}

InitDeadCheck ==
    /\ \E ts \in TemplateSeqs(DeadTemplates, MaxStmts) : tree = ModuleOf(ts)
    /\ issues = <<>>
    /\ call = NoCall
    /\ fs = [p \in Paths |-> Absent]
    /\ DeadCodeRule_init
    /\ GodClassRule_init
    /\ Cli_init
    /\ LongMethodRule_init
    /\ DuplicatedCodeRule_init

\* DeadCodeRule.check(tree)
DeadCheck ==
    /\ issues' = DeadCode_check(tree, is_project_mode)
    /\ call' = [op |-> "check"]
    /\ UNCHANGED <<tree, deadVars, godVars, cliVars, longVars, dupVars>>

NextDeadCheck == DeadCheck

SpecDeadCheck == InitDeadCheck /\ [][NextDeadCheck]_vars

\* the nodes of a tree, as a set
NodesOf(t) == LET nodes == walk(t) IN {nodes[i] : i \in 1..Len(nodes)}

\* the unused-definition issues of a result list that name n
UnusedIssuesNaming(iss, n) ==
    {i \in 1..Len(iss) : iss[i].message[1] = "Unused " /\ iss[i].message[4] = n}

UnreachableIssues(iss) ==
    {i \in 1..Len(iss) :
        iss[i].message[1] = "Unreachable code after statement at line "}

\* n is declared by a def, a class or an assignment to the plain name n
C1_Declared(t, n) ==
    \E node \in NodesOf(t) :
        \/ node.kind \in {"FunctionDef", "ClassDef"} /\ node.name = n
        \/ /\ node.kind = "Assign"
           /\ \E k \in 1..Len(node.targets) :
                node.targets[k].kind = "Name" /\ node.targets[k].id = n

\* n is read by name, accessed as an attribute, or is the target of a call
C1_Used(t, n) ==
    \E node \in NodesOf(t) :
        \/ node.kind = "Name" /\ node.ctx = "Load" /\ node.id = n
        \/ node.kind = "Attribute" /\ node.attr = n
        \/ /\ node.kind = "Call"
           /\ \/ node.func.kind = "Name" /\ node.func.id = n
              \/ node.func.kind = "Attribute" /\ node.func.attr = n

\* n is bound by an import statement (the alias wins over the original name)
C1_Imported(t, n) ==
    \E node \in NodesOf(t) :
        /\ node.kind \in {"Import", "ImportFrom"}
        /\ \E k \in 1..Len(node.names) :
                IF node.names[k].asname = None
                THEN node.names[k].name = n
                ELSE node.names[k].asname = n

C1_Names == {"helper", "_private", "other", "_outer", "obj", "x", "y", "m"}

HelperIssue ==
    [rule |-> "DeadCode", lineno |-> 1, end_lineno |-> 2,
     message |-> <<"Unused ", "function", " '", "helper",
                   "' is never referenced. Suggest removing it.">>]

IsPrefix(r, p) == Len(r) <= Len(p) /\ SubSeq(p, 1, Len(r)) = r

\* Path(root).rglob("*.py"): the files below root, as a set
rglob(files, root) ==
    {p \in DOMAIN files : files[p].kind # "absent" /\ IsPrefix(root, p)}

\* the orders in which rglob may list a set of files
Orderings(S) ==
    {o \in [1..Cardinality(S) -> S] : \A p \in S : \E i \in DOMAIN o : o[i] = p}

\* ast.parse succeeds
Parses(files, p) == files[p].kind = "Module"

\* _is_used_anywhere without the search of the import sets
_is_used_anywhere_noImports(usages, imports, name) ==
    \E i \in 1..Len(usages) : name \in usages[i][2]

\* True if the name is in any file's usages or imports
_is_used_anywhere(usages, imports, name) ==
    \/ \E i \in 1..Len(usages) : name \in usages[i][2]
    \/ \E i \in 1..Len(imports) : name \in imports[i][2]

\* Step 1b with the loop ended by the first file that fails to parse
RECURSIVE collectFiles_endAtFailure(_, _, _)
collectFiles_endAtFailure(index, files, py_files) ==
    IF py_files = <<>> THEN index
    ELSE LET py_file == Head(py_files)
         IN  IF Parses(files, py_file)
             THEN collectFiles_endAtFailure(
                    [defs |-> DictSet(index.defs, py_file,
                                      _collect_definitions(files[py_file])),
                     usages |-> DictSet(index.usages, py_file,
                                        _collect_usage(files[py_file])),
                     imports |-> DictSet(index.imports, py_file,
                                         _collect_imports(files[py_file]))],
                    files, Tail(py_files))
             ELSE index

\* Step 1b: parse each file and collect; a file that fails to parse is skipped
RECURSIVE collectFiles(_, _, _)
collectFiles(index, files, py_files) ==
    IF py_files = <<>> THEN index
    ELSE LET py_file == Head(py_files)
             next ==
                IF Parses(files, py_file)
                THEN [defs |-> DictSet(index.defs, py_file,
                                      _collect_definitions(files[py_file])),
                      usages |-> DictSet(index.usages, py_file,
                                         _collect_usage(files[py_file])),
                      imports |-> DictSet(index.imports, py_file,
                                          _collect_imports(files[py_file]))]
                ELSE index
         IN  collectFiles(next, files, Tail(py_files))

\* Step 2, inner loop, with a name looked up in the other files only
RECURSIVE unusedInFile_otherFiles(_, _, _)
unusedInFile_otherFiles(index, file_path, definitions) ==
    IF definitions = <<>> THEN <<>>
    ELSE LET name == Head(definitions)[1]
             def == Head(definitions)[2]
             rest == unusedInFile_otherFiles(index, file_path,
                                             Tail(definitions))
             others(dict) ==
                SelectSeq(dict, LAMBDA entry : entry[1] # file_path)
         IN  IF startswith(name, "_") THEN rest
             ELSE IF ~_is_used_anywhere(others(index.usages),
                                        others(index.imports), name)
             THEN <<[rule |-> DeadCodeName, lineno |-> def[2],
                     end_lineno |-> def[3], file |-> file_path,
                     message |-> UnusedMessage(def[1], name)]>> \o rest
             ELSE rest

\* Step 2, inner loop: the unused definitions of one file
RECURSIVE unusedInFile(_, _, _)
unusedInFile(index, file_path, definitions) ==
    IF definitions = <<>> THEN <<>>
    ELSE LET name == Head(definitions)[1]
             def == Head(definitions)[2]
             rest == unusedInFile(index, file_path, Tail(definitions))
         IN  IF startswith(name, "_") THEN rest
             ELSE IF ~_is_used_anywhere(index.usages, index.imports, name)
             THEN <<[rule |-> DeadCodeName, lineno |-> def[2],
                     end_lineno |-> def[3], file |-> file_path,
                     message |-> UnusedMessage(def[1], name)]>> \o rest
             ELSE rest

\* Step 2: cross-reference every indexed file's definitions
crossReference(index) ==
    Concat([i \in 1..Len(index.defs) |->
              unusedInFile(index, index.defs[i][1], index.defs[i][2])])

\* Step 3: unreachable code of each discovered file that parses
unreachableInFiles(files, py_files, project_mode) ==
    Concat([i \in 1..Len(py_files) |->
              IF Parses(files, py_files[i])
              THEN _check_unreachable(files[py_files[i]], py_files[i],
                                      project_mode)
              ELSE <<>>])

\* Steps 1b and 2 run together: each file's definitions are resolved as soon
\* as the file has been collected
RECURSIVE resolveWhileCollecting(_, _, _, _)
resolveWhileCollecting(index, files, py_files, found) ==
    IF py_files = <<>> THEN [index |-> index, issues |-> found]
    ELSE LET py_file == Head(py_files)
             next == collectFiles(index, files, <<py_file>>)
         IN  resolveWhileCollecting(next, files, Tail(py_files),
                found \o (IF Parses(files, py_file)
                          THEN unusedInFile(next, py_file,
                                            DictGet(next.defs, py_file))
                          ELSE <<>>))

check_project_eager(index, files, py_files) ==
    IF py_files = <<>> THEN [index |-> index, issues |-> <<>>]
    ELSE LET resolved == resolveWhileCollecting(index, files, py_files, <<>>)
         IN  [index |-> resolved.index,
              issues |-> resolved.issues
                         \o unreachableInFiles(files, py_files, TRUE)]

\* check_project on an instance whose index is `index`: the index and the
\* issues it ends with.  py_files is rglob's listing of the root.
check_project(index, files, py_files) ==
    IF py_files = <<>> THEN [index |-> index, issues |-> <<>>]
    ELSE LET collected == collectFiles(index, files, py_files)
         IN  [index |-> collected,
              issues |-> crossReference(collected)
                         \o unreachableInFiles(files, py_files, TRUE)]

EmptyIndex == [defs |-> <<>>, usages |-> <<>>, imports |-> <<>>]

TheIndex ==
    [defs |-> all_definitions, usages |-> all_usages, imports |-> all_imports]

(***************************************************************************)
(* Project runs: a file system of Paths whose files hold modules of up to  *)
(* MaxFileStmts statements; analyze_project may be called on either root,  *)
(* any number of times on the one rule instance, and files may be deleted  *)
(* between calls.                                                          *)
(***************************************************************************)
MaxFileStmts == 2

ProjectTemplates == {"def helper", "helper()", "from m import helper"}

\* what a path may hold: a module of up to MaxFileStmts statements, a source
\* that does not parse, or no file
FileOf(content) ==
    IF content = <<"<unparsable>">> THEN Unparsable
    ELSE IF content = <<"<absent>">> THEN Absent
    ELSE ModuleOf(content)

FileContents ==
    TemplateSeqs(ProjectTemplates, MaxFileStmts)
        \cup {<<"<unparsable>">>, <<"<absent>">>}

InitDeadProject ==
    /\ \E contents \in [Paths -> FileContents] :
            fs = [p \in Paths |-> FileOf(contents[p])]
    /\ tree = Module(<<>>)
    /\ issues = <<>>
    /\ call = NoCall
    /\ DeadCodeRule_init
    /\ GodClassRule_init
    /\ Cli_init
    /\ LongMethodRule_init
    /\ DuplicatedCodeRule_init

\* analyze_project's DeadCodeRule branch: set project_root, call check_project
AnalyzeProject(root, py_files) ==
    LET result == check_project(TheIndex, fs, py_files)
    IN  /\ project_root' = root
        /\ is_project_mode' = TRUE
        /\ all_definitions' = result.index.defs
        /\ all_usages' = result.index.usages
        /\ all_imports' = result.index.imports
        /\ issues' = result.issues
        /\ call' = [op |-> "check_project", root |-> root,
                    py_files |-> py_files]
        /\ UNCHANGED <<tree, fs, godVars, cliVars, longVars, dupVars>>

\* the environment removes a file between two runs
DeleteFile(p) ==
    /\ fs[p].kind # "absent"
    /\ fs' = [fs EXCEPT ![p] = Absent]
    /\ call' = [op |-> "delete", path |-> p]
    /\ UNCHANGED <<tree, issues, project_root, all_definitions, all_usages,
                   all_imports, is_project_mode, godVars, cliVars, longVars,
                   dupVars>>

NextDeadProject ==
    \/ \E root \in Roots : \E py_files \in Orderings(rglob(fs, root)) :
            AnalyzeProject(root, py_files)
    \/ \E p \in Paths : DeleteFile(p)

SpecDeadProject == InitDeadProject /\ [][NextDeadProject]_vars

\* the unused-definition issues of a result list for file F that name n
UnusedIssuesIn(iss, F, n) ==
    {i \in UnusedIssuesNaming(iss, n) : "file" \in DOMAIN iss[i] /\ iss[i].file = F}

\* the files the call discovered and parsed
ParsedFiles == {F \in rglob(fs, call.root) : Parses(fs, F)}

\* C2: after check_project, a definition of a parsed file F whose name does
\* not start with '_' is reported as unused (once, with file F) if and only if
\* the name is in no indexed file's UsageSet and in no indexed file's
\* ImportSet, whichever file defined it; the sets indexed for a parsed file
\* are the names its tree uses and imports.
C2_ProjectUnusedIffUsedNowhere ==
    call.op = "check_project" =>
        /\ \A F \in ParsedFiles :
            /\ F \in DictKeys(all_usages) /\ F \in DictKeys(all_imports)
            /\ DictGet(all_usages, F) = {n \in C1_Names : C1_Used(fs[F], n)}
            /\ DictGet(all_imports, F) =
                    {n \in C1_Names : C1_Imported(fs[F], n)}
        /\ \A F \in ParsedFiles : \A n \in C1_Names :
            (C1_Declared(fs[F], n) /\ ~startswith(n, "_")) =>
                Cardinality(UnusedIssuesIn(issues, F, n)) =
                    IF \A G \in DictKeys(all_usages) :
                            /\ n \notin DictGet(all_usages, G)
                            /\ n \notin DictGet(all_imports, G)
                    THEN 1 ELSE 0

\* a.py defines helper and b.py calls it (nothing is reported), and a project
\* whose only file defines helper (it is reported with its file)
C2_Witness ==
    /\ call.op = "check_project"
    /\ call.root = <<"proj">>
    /\ fs[<<"proj", "a.py">>] = ModuleOf(<<"def helper">>)
    /\ \/ /\ fs[<<"proj", "sub", "b.py">>] = ModuleOf(<<"helper()">>)
          /\ issues = <<>>
       \/ /\ fs[<<"proj", "sub", "b.py">>] = Absent
          /\ all_usages = <<<<(<<"proj", "a.py">>), {}>>>>
          /\ UnusedIssuesIn(issues, <<"proj", "a.py">>, "helper") = {1}

\* the issues a newly constructed DeadCodeRule returns for the same listing
FreshIssues == check_project(EmptyIndex, fs, call.py_files).issues

\* C3: every check_project call returns exactly the issues that a newly
\* constructed DeadCodeRule would return for that root; nothing indexed by an
\* earlier call influences a later one.
C3_EachCallAsFresh ==
    call.op = "check_project" => issues = FreshIssues

(***************************************************************************)
(* Unreachable-code scan: check(tree) on a module holding one compound     *)
(* statement whose statement lists are drawn from ListTemplates.           *)
(***************************************************************************)
MaxBody == 3
MaxSubStmts == 2

ListTemplates ==
    {"return", "raise", "break", "continue", "exit()", "quit()", "sys.exit()",
     "print()", "obj.close()", "docstring", "if c: return; print()"}

SubTemplates == {"return", "print()"}

OtherLists == {<<>>, <<"print()">>, <<"return", "print()">>}

CallStmt(id, l) == Expr(Call(Name(id, "Load", l), l), l)

MethodCallStmt(obj, attr, l) ==
    Expr(Call(Attribute(Name(obj, "Load", l), attr, "Load", l), l), l)

\* the statement of a list that a template stands for, at line l
ListStmt(template, l) ==
    CASE template = "return" -> Return(l)
      [] template = "raise" -> Raise(l)
      [] template = "break" -> Break(l)
      [] template = "continue" -> Continue(l)
      [] template = "exit()" -> CallStmt("exit", l)
      [] template = "quit()" -> CallStmt("quit", l)
      [] template = "sys.exit()" -> MethodCallStmt("sys", "exit", l)
      [] template = "print()" -> CallStmt("print", l)
      [] template = "obj.close()" -> MethodCallStmt("obj", "close", l)
      [] template = "docstring" -> Expr(Constant(PyStr("doc"), l), l)
      [] template = "if c: return; print()" ->
            Branch("If", Name("c", "Load", l),
                   <<Return(l + 1), CallStmt("print", l + 2)>>, <<>>, l)

\* a statement list whose first statement is at line first, three lines apart
ListAt(templates, first) ==
    [i \in 1..Len(templates) |-> ListStmt(templates[i], first + 3 * (i - 1))]

\* the first line after a list placed at line first
After(templates, first) == first + 3 * Len(templates)

NonEmpty(seqs) == {q \in seqs : q # <<>>}

Cond == Name("c", "Load", 1)

\* one compound statement at line 1 with the given statement lists
Compound(shape, body, handler, orelse, finalbody) ==
    LET b == ListAt(body, 2)
        h == ListAt(handler, After(body, 2) + 1)
        hEnd == After(handler, After(body, 2) + 1)
        e == ListAt(orelse, hEnd + 1)
        f == ListAt(finalbody, After(orelse, hEnd + 1) + 1)
    IN  CASE shape = "def" -> FunctionDef("FunctionDef", "_f", NoArgs, b, 1)
          [] shape = "async def" ->
                FunctionDef("AsyncFunctionDef", "_f", NoArgs, b, 1)
          [] shape = "class" -> ClassDef("_C", b, 1)
          [] shape \in {"If", "While", "For", "AsyncFor"} ->
                Branch(shape, Cond, b, e, 1)
          [] shape \in {"With", "AsyncWith"} -> With(shape, b, 1)
          [] shape = "Try" ->
                Try(b, <<ExceptHandler(h, After(body, 2))>>, e, f, 1)

InitUnreachable ==
    /\ \/ \E shape \in {"def", "async def", "class", "With", "AsyncWith"} :
          \E body \in NonEmpty(TemplateSeqs(ListTemplates, MaxBody)) :
            tree = Module(<<Compound(shape, body, <<>>, <<>>, <<>>)>>)
       \/ \E shape \in {"If", "While"} :
          \E body \in NonEmpty(TemplateSeqs(ListTemplates, MaxBody)) :
          \E orelse \in OtherLists :
            tree = Module(<<Compound(shape, body, <<>>, orelse, <<>>)>>)
       \/ \E shape \in {"For", "AsyncFor"} :
          \E body \in NonEmpty(TemplateSeqs(SubTemplates, MaxSubStmts)) :
          \E orelse \in TemplateSeqs(SubTemplates, MaxSubStmts) :
            tree = Module(<<Compound(shape, body, <<>>, orelse, <<>>)>>)
       \/ \E body \in NonEmpty(TemplateSeqs(SubTemplates, MaxSubStmts)) :
          \E handler \in NonEmpty(TemplateSeqs(SubTemplates, MaxSubStmts)) :
          \E orelse \in TemplateSeqs(SubTemplates, MaxSubStmts) :
          \E finalbody \in TemplateSeqs(SubTemplates, MaxSubStmts) :
            tree = Module(<<Compound("Try", body, handler, orelse, finalbody)>>)
    /\ issues = <<>>
    /\ call = NoCall
    /\ fs = [p \in Paths |-> Absent]
    /\ DeadCodeRule_init
    /\ GodClassRule_init
    /\ Cli_init
    /\ LongMethodRule_init
    /\ DuplicatedCodeRule_init

SpecUnreachable == InitUnreachable /\ [][NextDeadCheck]_vars

\* the statement lists of one node: body, else, handler bodies, finally
ListsOfNode(node) ==
    {node[f] : f \in DOMAIN node \cap {"body", "orelse", "finalbody"}}
    \cup (IF "handlers" \in DOMAIN node
          THEN {node.handlers[h].body : h \in 1..Len(node.handlers)}
          ELSE {})

\* every non-empty statement list of a tree
AllLists(t) == UNION {ListsOfNode(node) : node \in NodesOf(t)} \ {<<>>}

\* the non-empty statement lists of the constructs the rule walks into
RuleLists(t) ==
    UNION {ListsOfNode(node) :
            node \in {m \in NodesOf(t) :
                        m.kind \in {"FunctionDef", "For", "While", "If",
                                    "With", "Try"}}} \ {<<>>}

\* return, raise, break, continue, exit(), quit(), <anything>.exit()
IsTerminatorStmt(stmt) ==
    \/ stmt.kind \in {"Return", "Raise", "Break", "Continue"}
    \/ /\ stmt.kind = "Expr"
       /\ stmt.value.kind = "Call"
       /\ \/ /\ stmt.value.func.kind = "Name"
             /\ stmt.value.func.id \in {"exit", "quit"}
          \/ /\ stmt.value.func.kind = "Attribute"
             /\ stmt.value.func.attr = "exit"

TerminatorsOf(L) == {k \in 1..Len(L) : IsTerminatorStmt(L[k])}

Min(S) == CHOOSE k \in S : \A j \in S : k <= j

\* the unreachable-code issues that point at a statement of list L
IssuesAt(iss, L) ==
    {i \in UnreachableIssues(iss) : \E k \in 1..Len(L) : iss[i].lineno = L[k].lineno}

\* C4: a scanned statement list with a terminator at a non-final position
\* yields exactly one unreachable-code issue, pointing at the statement right
\* after the first terminator of the list; a list with no terminator, or whose
\* only terminator is its last statement, yields none.
C4_OneIssueAfterFirstTerminator ==
    call.op = "check" =>
        \A L \in RuleLists(tree) :
            IF \E k \in TerminatorsOf(L) : k < Len(L)
            THEN /\ Cardinality(IssuesAt(issues, L)) = 1
                 /\ \A i \in IssuesAt(issues, L) :
                        issues[i].lineno = L[Min(TerminatorsOf(L)) + 1].lineno
            ELSE IssuesAt(issues, L) = {}

\* C5: at most one unreachable-code issue per statement list, and the lists of
\* a compound statement are scanned independently: every reported statement
\* follows a terminator of its own list, which is the one the message names.
C5_AtMostOnePerListIndependent ==
    call.op = "check" =>
        /\ \A L \in AllLists(tree) :
            /\ Cardinality(IssuesAt(issues, L)) <= 1
            /\ \A i \in IssuesAt(issues, L) :
                \E k \in 1..Len(L) : \E j \in TerminatorsOf(L) :
                    /\ j < k
                    /\ issues[i].lineno = L[k].lineno
                    /\ issues[i].end_lineno = L[k].end_lineno
                    /\ issues[i].message = UnreachableMessage(L[j].lineno)
        /\ \A i \in UnreachableIssues(issues) :
            \E L \in AllLists(tree) : i \in IssuesAt(issues, L)

C5_WitnessTree ==
    Module(<<Compound("Try", <<"return", "print()">>, <<"print()", "print()">>,
                      <<"return", "print()">>, <<"print()">>)>>)

\* a try statement whose body and else lists each end unreachable while its
\* handler and finally lists hold no terminator: two issues, one per list
C5_Witness ==
    /\ call.op = "check"
    /\ tree = C5_WitnessTree
    /\ Len(issues) = 2
    /\ Cardinality(IssuesAt(issues, tree.body[1].body)) = 1
    /\ Cardinality(IssuesAt(issues, tree.body[1].orelse)) = 1
    /\ IssuesAt(issues, tree.body[1].handlers[1].body) = {}
    /\ IssuesAt(issues, tree.body[1].finalbody) = {}

(***************************************************************************)
(* MutableDefaultArgumentsRule (rules/mutable_default_arguments.py)        *)
(***************************************************************************)
MutableName == "MutableDefaultArguments"

\* mutable_types without ast.Set
mutable_types_noSet == {"List", "Dict"}

mutable_types == {"List", "Dict", "Set"}

MutableMessage(name) ==
    <<"Function '", name,
      "' has a mutable default argument. Consider using None and initializing inside the function.">>

\* the issues appended for one walked node: one per mutable positional default
mutableIssuesOf(node) ==
    IF node.kind = "FunctionDef"
    THEN LET defaults == node.args.defaults
             hits == SelectSeqIdx(defaults,
                        LAMBDA i : defaults[i].kind \in mutable_types)
         IN  [k \in 1..Len(hits) |->
                [rule |-> MutableName, lineno |-> node.lineno,
                 end_lineno |-> node.end_lineno,
                 message |-> MutableMessage(node.name)]]
    ELSE <<>>

\* MutableDefaultArgumentsRule.check(tree)
MutableDefault_check(t) ==
    LET nodes == walk(t)
    IN  Concat([i \in 1..Len(nodes) |-> mutableIssuesOf(nodes[i])])

(***************************************************************************)
(* analyze_file (core.py) and the smell-LOC aggregation (cli.py)           *)
(***************************************************************************)
\* issue['file'] = file_path
WithFile(issue, file_path) ==
    [f \in DOMAIN issue \cup {"file"} |->
        IF f = "file" THEN file_path ELSE issue[f]]

\* the rules of setup_rules that are modelled, in the order it appends them
RuleOrder == <<"DeadCode", "MutableDefaultArguments">>

\* analyze_file on a parsed file: every enabled rule's check, in order; the
\* DeadCodeRule issues get the file attached
analyze_file(t, file_path, rules, project_mode) ==
    Concat([r \in 1..Len(RuleOrder) |->
        IF RuleOrder[r] \notin rules THEN <<>>
        ELSE IF RuleOrder[r] = "DeadCode"
        THEN LET rule_issues == DeadCode_check(t, project_mode)
             IN  [i \in 1..Len(rule_issues) |->
                    WithFile(rule_issues[i], file_path)]
        ELSE MutableDefault_check(t)])

\* what one issue adds to total_loc; issue.get('lineno') is None, hence
\* falsy, when the key is missing, and a line number is falsy when it is 0
locOf(issue) ==
    IF "rule" \in DOMAIN issue /\ issue.rule = "MututableDefaultArguments"
    THEN 1
    ELSE IF "lineno" \notin DOMAIN issue THEN 0
    ELSE LET lineno == issue.lineno
             end_lineno == IF "end_lineno" \in DOMAIN issue
                           THEN issue.end_lineno ELSE lineno
         IN  IF lineno # 0 /\ end_lineno # 0
             THEN end_lineno - lineno + 1
             ELSE 0

\* count_total_loc_code_smells(all_results)
count_total_loc_code_smells(results) ==
    LET lists == DictValues(results)
    IN  SumSeq([f \in 1..Len(lists) |->
                  SumSeq([i \in 1..Len(lists[f]) |-> locOf(lists[f][i])])])

(***************************************************************************)
(* Smell runs: a module of one or two functions whose positional defaults  *)
(* are drawn from DefaultKinds; the rule is called alone and through       *)
(* analyze_code_smells on the single file.                                 *)
(***************************************************************************)
MaxDefaults == 2

DefaultKinds == {"List", "Dict", "Set", "None", "Tuple", "Call"}

\* a default-value expression of the given kind
DefaultExpr(kind, l) ==
    IF kind = "None" THEN Constant(PyNone, l)
    ELSE IF kind = "Call" THEN Call(Name("list", "Load", l), l)
    ELSE Display(kind, l)

DefaultsOf(kinds, l) == [i \in 1..Len(kinds) |-> DefaultExpr(kinds[i], l)]

FunctionShapes ==
    {"def", "async def", "keyword-only default", "nested def", "lambda"}

\* the first statement of the module, at line 1
FirstFunction(shape, kinds) ==
    CASE shape = "def" ->
            FunctionDef("FunctionDef", "f",
                        arguments(DefaultsOf(kinds, 1), <<>>), <<Pass(2)>>, 1)
      [] shape = "async def" ->
            FunctionDef("AsyncFunctionDef", "f",
                        arguments(DefaultsOf(kinds, 1), <<>>), <<Pass(2)>>, 1)
      [] shape = "keyword-only default" ->
            FunctionDef("FunctionDef", "f",
                        arguments(<<>>, DefaultsOf(kinds, 1)), <<Pass(2)>>, 1)
      [] shape = "nested def" ->
            FunctionDef("FunctionDef", "f", NoArgs,
                <<FunctionDef("FunctionDef", "inner",
                              arguments(DefaultsOf(kinds, 2), <<>>),
                              <<Pass(3)>>, 2)>>, 1)
      [] shape = "lambda" ->
            Assign(<<Name("f", "Store", 1)>>,
                   [kind |-> "Lambda",
                    args |-> arguments(DefaultsOf(kinds, 1), <<>>),
                    lineno |-> 1, end_lineno |-> 1], 1)

SecondFunctions == {"none", "def g(x=[])", "def g(x=None)"}

SecondFunction(second) ==
    IF second = "none" THEN <<>>
    ELSE <<FunctionDef("FunctionDef", "g",
             arguments(DefaultsOf(IF second = "def g(x=[])" THEN <<"List">>
                                  ELSE <<"None">>, 4), <<>>),
             <<Pass(5), Pass(6)>>, 4)>>

TheFile == <<"proj", "a.py">>

InitSmells ==
    /\ \E shape \in FunctionShapes :
       \E kinds \in TemplateSeqs(DefaultKinds, MaxDefaults) :
       \E second \in SecondFunctions :
            /\ shape # "def" => Len(kinds) = 1 /\ kinds[1] \in {"List", "None"}
            /\ tree = Module(<<FirstFunction(shape, kinds)>>
                             \o SecondFunction(second))
    /\ issues = <<>>
    /\ call = NoCall
    /\ fs = [p \in Paths |-> Absent]
    /\ DeadCodeRule_init
    /\ GodClassRule_init
    /\ Cli_init
    /\ LongMethodRule_init
    /\ DuplicatedCodeRule_init

\* MutableDefaultArgumentsRule.check(tree)
MutableCheck ==
    /\ issues' = MutableDefault_check(tree)
    /\ call' = [op |-> "mutable_check"]
    /\ UNCHANGED <<tree, deadVars, godVars, cliVars, longVars, dupVars>>

\* analyze_code_smells on a single file with the enabled rules: analyze_file,
\* then the results dict and its total LOC
AnalyzeCodeSmells(rules) ==
    LET all_issues == analyze_file(tree, TheFile, rules, is_project_mode)
        results == IF all_issues # <<>> THEN <<<<TheFile, all_issues>>>>
                   ELSE <<>>
    IN  /\ issues' = all_issues
        /\ all_results' = results
        /\ total_loc' = count_total_loc_code_smells(results)
        /\ project_root' =
                IF "DeadCode" \in rules
                THEN SubSeq(TheFile, 1, Len(TheFile) - 1)
                ELSE project_root
        /\ call' = [op |-> "analyze_code_smells", rules |-> rules]
        /\ UNCHANGED <<tree, fs, all_definitions, all_usages, all_imports,
                       is_project_mode, godVars, longVars, dupVars>>

NextSmells ==
    \/ MutableCheck
    \/ \E rules \in SUBSET {"DeadCode", "MutableDefaultArguments"} :
            rules # {} /\ AnalyzeCodeSmells(rules)

SpecSmells == InitSmells /\ [][NextSmells]_vars

\* the function declarations (def statements) of a tree
FunctionDecls(t) == {node \in NodesOf(t) : node.kind = "FunctionDef"}

\* the issues of a result list reported for the function at f's line
IssuesFor(iss, f) ==
    {i \in 1..Len(iss) :
        /\ iss[i].rule = "MutableDefaultArguments"
        /\ iss[i].lineno = f.lineno
        /\ iss[i].message[2] = f.name}

HasMutableDefault(f) ==
    \E k \in 1..Len(f.args.defaults) :
        f.args.defaults[k].kind \in {"List", "Dict", "Set"}

\* C6: MutableDefaultArgumentsRule.check emits at most one issue per function
\* declaration; a function with two or more mutable defaults yields exactly
\* one issue, like a function with one.
C6_OneIssuePerFunction ==
    call.op = "mutable_check" =>
        \A f \in FunctionDecls(tree) :
            Cardinality(IssuesFor(issues, f)) =
                IF HasMutableDefault(f) THEN 1 ELSE 0

\* C7: a function declaration is flagged if and only if at least one of its
\* positional defaults is a list, dict or set literal; def f(x=[]) is flagged,
\* def f(x=None) is not, and nothing but such a function is ever flagged.
C7_FlaggedIffMutableDefault ==
    call.op = "mutable_check" =>
        /\ \A f \in FunctionDecls(tree) :
            (IssuesFor(issues, f) # {}) <=> HasMutableDefault(f)
        /\ \A i \in 1..Len(issues) :
            \E f \in FunctionDecls(tree) :
                i \in IssuesFor(issues, f) /\ HasMutableDefault(f)
        /\ tree = Module(<<FirstFunction("def", <<"List">>)>>) =>
                Len(issues) = 1 /\ issues[1].lineno = 1
        /\ tree = Module(<<FirstFunction("def", <<"None">>)>>) => issues = <<>>

\* def f(x={1}, y=None) is flagged and def g(x=None) after it is not
C7_Witness ==
    /\ call.op = "mutable_check"
    /\ tree = Module(<<FirstFunction("def", <<"Set", "None">>)>>
                     \o SecondFunction("def g(x=None)"))
    /\ Len(issues) = 1
    /\ issues[1].lineno = 1
    /\ issues[1].message[2] = "f"

\* the issues of the results dict, file after file
AllResultIssues == Concat(DictValues(all_results))

\* C8: in count_total_loc_code_smells every MutableDefaultArguments issue
\* counts as exactly 1 line whatever its span, and every other issue counts
\* end_lineno - lineno + 1.
C8_MutableDefaultCountsOneLine ==
    call.op = "analyze_code_smells" =>
        total_loc =
            SumSeq([i \in 1..Len(AllResultIssues) |->
                IF AllResultIssues[i].rule = MutableName THEN 1
                ELSE AllResultIssues[i].end_lineno
                        - AllResultIssues[i].lineno + 1])

(***************************************************************************)
(* GodClassRule (rules/god_class.py)                                       *)
(***************************************************************************)
GodClassName == "GodClass"

\* what one walked node adds to the complexity
complexityOf(child) ==
    IF child.kind \in {"If", "While", "For", "AsyncFor"} THEN 1
    ELSE IF child.kind = "ExceptHandler" THEN 1
    ELSE IF child.kind \in {"With", "AsyncWith"} THEN 1
    ELSE IF child.kind = "Assert" THEN 1
    ELSE IF child.kind = "BoolOp" THEN Len(child.values) - 1
    ELSE IF child.kind = "comprehension" THEN Len(child.ifs)
    ELSE 0

\* GodClassRule.calculate_complexity(node)
calculate_complexity(node) ==
    LET nodes == walk(node)
    IN  1 + SumSeq([i \in 1..Len(nodes) |-> complexityOf(nodes[i])])

\* methodsOf over every def below the class, not only its direct children
methodsOf_anyDepth(node) ==
    LET nodes == walk(node)
    IN  SelectSeq(nodes, LAMBDA n : n.kind = "FunctionDef")

\* the FunctionDef nodes of the class body
methodsOf(node) == SelectSeq(node.body, LAMBDA n : n.kind = "FunctionDef")

\* problems with >= in place of > for the method count
problemsOf_nonStrict(method_count, total_complexity, line_count, mm, mc, ml) ==
    (IF method_count >= mm
     THEN <<<<ToString(method_count), " methods (max: ", ToString(mm), ")">>>>
     ELSE <<>>)
    \o (IF total_complexity > mc
        THEN <<<<"complexity ", ToString(total_complexity), " (max: ",
                 ToString(mc), ")">>>>
        ELSE <<>>)
    \o (IF line_count > ml
        THEN <<<<ToString(line_count), " lines (max: ", ToString(ml), ")">>>>
        ELSE <<>>)

\* the violation messages of one class, in the order they are appended
problemsOf(method_count, total_complexity, line_count, mm, mc, ml) ==
    (IF method_count > mm
     THEN <<<<ToString(method_count), " methods (max: ", ToString(mm), ")">>>>
     ELSE <<>>)
    \o (IF total_complexity > mc
        THEN <<<<"complexity ", ToString(total_complexity), " (max: ",
                 ToString(mc), ")">>>>
        ELSE <<>>)
    \o (IF line_count > ml
        THEN <<<<ToString(line_count), " lines (max: ", ToString(ml), ")">>>>
        ELSE <<>>)

GodMessage(name, problems) ==
    <<"Class '", name, "' is a God Class: ", problems,
      ". Consider refactoring by extract into sub class.">>

\* the issues appended for one walked node
godIssuesOf(node, mm, mc, ml) ==
    IF node.kind # "ClassDef" THEN <<>>
    ELSE LET methods == methodsOf(node)
             method_count == Len(methods)
             total_complexity ==
                SumSeq([i \in 1..Len(methods) |->
                          calculate_complexity(methods[i])])
             line_count ==
                IF "end_lineno" \in DOMAIN node /\ "lineno" \in DOMAIN node
                THEN node.end_lineno - node.lineno + 1
                ELSE 0
             problems == problemsOf(method_count, total_complexity,
                                    line_count, mm, mc, ml)
         IN  IF problems # <<>>
             THEN <<[rule |-> GodClassName, lineno |-> node.lineno,
                     end_lineno |-> node.end_lineno,
                     message |-> GodMessage(node.name, problems)]>>
             ELSE <<>>

\* GodClassRule.check(tree) with thresholds mm, mc, ml
GodClass_check(t, mm, mc, ml) ==
    LET nodes == walk(t)
    IN  Concat([i \in 1..Len(nodes) |-> godIssuesOf(nodes[i], mm, mc, ml)])

(***************************************************************************)
(* God-class runs: a module holding one class of up to MaxMembers members  *)
(* drawn from MemberTemplates, checked by a rule constructed with          *)
(* thresholds from MethodLimits, ComplexityLimits and LineLimits.          *)
(***************************************************************************)
MaxMembers == 3

MemberTemplates ==
    {"def pass", "def if", "def if a and b", "def nested if", "def zoo",
     "async def", "class Inner", "x = 1"}

MethodLimits == {1, 2, 10}
ComplexityLimits == {3, 9, 35}
LineLimits == {5, 100}

Def(name, body, l) == FunctionDef("FunctionDef", name, NoArgs, body, l)

IfPass(test, l) == Branch("If", test, <<Pass(l + 1)>>, <<>>, l)

\* the class member a template stands for, at line l
Member(template, l) ==
    CASE template = "def pass" -> Def("m", <<Pass(l + 1)>>, l)
      [] template = "def if" ->
            Def("m", <<IfPass(Name("c", "Load", l + 1), l + 1)>>, l)
      [] template = "def if a and b" ->
            Def("m", <<IfPass(BoolOp(<<Name("a", "Load", l + 1),
                                       Name("b", "Load", l + 1)>>, l + 1),
                              l + 1)>>, l)
      [] template = "def nested if" ->
            Def("m", <<Def("inner",
                           <<IfPass(Name("c", "Load", l + 2), l + 2)>>,
                           l + 1)>>, l)
      [] template = "def zoo" ->
            Def("m",
                <<With("With", <<Pass(l + 2)>>, l + 1),
                  Try(<<Pass(l + 4)>>, <<ExceptHandler(<<Pass(l + 6)>>, l + 5)>>,
                      <<>>, <<>>, l + 3),
                  AssertStmt(Name("c", "Load", l + 7), l + 7),
                  Expr(ListComp(<<comprehension(<<Name("c", "Load", l + 8),
                                                  Name("d", "Load", l + 8)>>)>>,
                                l + 8), l + 8),
                  Branch("For", Name("y", "Load", l + 9), <<Pass(l + 10)>>,
                         <<>>, l + 9),
                  Branch("While", Name("c", "Load", l + 11), <<Pass(l + 12)>>,
                         <<>>, l + 11)>>, l)
      [] template = "async def" ->
            FunctionDef("AsyncFunctionDef", "m", NoArgs,
                        <<IfPass(Name("c", "Load", l + 1), l + 1)>>, l)
      [] template = "class Inner" ->
            ClassDef("Inner", <<Def("m", <<Pass(l + 2)>>, l + 1)>>, l)
      [] template = "x = 1" ->
            Assign(<<Name("x", "Store", l)>>, Constant(PyInt(1), l), l)

\* the members of a class body laid out one after the other from line first
RECURSIVE Members(_, _)
Members(templates, first) ==
    IF templates = <<>> THEN <<>>
    ELSE LET member == Member(Head(templates), first)
         IN  <<member>> \o Members(Tail(templates), member.end_lineno + 1)

ClassOf(templates) ==
    ClassDef("K", IF templates = <<>> THEN <<Pass(2)>>
                  ELSE Members(templates, 2), 1)

InitGodClass ==
    /\ \E templates \in TemplateSeqs(MemberTemplates, MaxMembers) :
            tree = Module(<<ClassOf(templates)>>)
    /\ max_methods \in MethodLimits
    /\ max_cc \in ComplexityLimits
    /\ max_loc \in LineLimits
    /\ issues = <<>>
    /\ call = NoCall
    /\ fs = [p \in Paths |-> Absent]
    /\ DeadCodeRule_init
    /\ Cli_init
    /\ LongMethodRule_init
    /\ DuplicatedCodeRule_init

\* GodClassRule.check(tree)
GodCheck ==
    /\ issues' = GodClass_check(tree, max_methods, max_cc, max_loc)
    /\ call' = [op |-> "god_check"]
    /\ UNCHANGED <<tree, deadVars, godVars, cliVars, longVars, dupVars>>

NextGodClass == GodCheck

SpecGodClass == InitGodClass /\ [][NextGodClass]_vars

(***************************************************************************)
(* Claims about GodClassRule                                               *)
(***************************************************************************)
ClassDecls(t) == {node \in NodesOf(t) : node.kind = "ClassDef"}

\* the def statements that are direct children of the class body
DirectMethods(c) ==
    {i \in 1..Len(c.body) : c.body[i].kind = "FunctionDef"}

\* base 1, plus one per branch, handler, context manager and assertion, plus
\* operands - 1 per boolean expression, plus the filters of each
\* comprehension clause, over the whole subtree
CyclomaticComplexity(node) ==
    LET nodes == walk(node)
        At(kinds) == {i \in 1..Len(nodes) : nodes[i].kind \in kinds}
        operands == [i \in 1..Len(nodes) |->
                        IF nodes[i].kind = "BoolOp"
                        THEN Len(nodes[i].values) - 1 ELSE 0]
        filters == [i \in 1..Len(nodes) |->
                        IF nodes[i].kind = "comprehension"
                        THEN Len(nodes[i].ifs) ELSE 0]
    IN  1 + Cardinality(At({"If", "While", "For", "AsyncFor", "ExceptHandler",
                            "With", "AsyncWith", "Assert"}))
          + SumSeq(operands) + SumSeq(filters)

MethodCount(c) == Cardinality(DirectMethods(c))

RECURSIVE SumOver(_, _)
SumOver(S, c) ==
    IF S = {} THEN 0
    ELSE LET i == CHOOSE j \in S : TRUE
         IN  CyclomaticComplexity(c.body[i]) + SumOver(S \ {i}, c)

SummedComplexity(c) == SumOver(DirectMethods(c), c)

LineSpan(c) == c.end_lineno - c.lineno + 1

\* the issues of a result list reported for the class c
GodIssuesFor(iss, c) ==
    {i \in 1..Len(iss) :
        /\ iss[i].rule = "GodClass"
        /\ iss[i].lineno = c.lineno
        /\ iss[i].message[2] = c.name}

Flagged(c) == GodIssuesFor(issues, c) # {}

\* C9: the thresholds are strict: a class with exactly max_methods direct
\* methods, summed complexity <= max_cc and line span <= max_loc is not
\* flagged, a class with max_methods + 1 direct methods is flagged, and the
\* same holds at max_cc / max_cc + 1 and at max_loc / max_loc + 1
C9_StrictBoundary ==
    call.op = "god_check" =>
        \A c \in ClassDecls(tree) :
            /\ (/\ MethodCount(c) <= max_methods
                /\ SummedComplexity(c) <= max_cc
                /\ LineSpan(c) <= max_loc
                /\ \/ MethodCount(c) = max_methods
                   \/ SummedComplexity(c) = max_cc
                   \/ LineSpan(c) = max_loc) => ~Flagged(c)
            /\ MethodCount(c) = max_methods + 1 => Flagged(c)
            /\ SummedComplexity(c) = max_cc + 1 => Flagged(c)
            /\ LineSpan(c) = max_loc + 1 => Flagged(c)

\* a run where one class sits exactly on max_methods and is not flagged and
\* another has max_methods + 1 methods, within the other limits, and is flagged
C9_Witness ==
    /\ call.op = "god_check"
    /\ \E c \in ClassDecls(tree) :
            /\ MethodCount(c) = max_methods
            /\ SummedComplexity(c) <= max_cc
            /\ LineSpan(c) <= max_loc
            /\ ~Flagged(c)
    /\ \E c \in ClassDecls(tree) :
            /\ MethodCount(c) = max_methods + 1
            /\ SummedComplexity(c) <= max_cc
            /\ LineSpan(c) <= max_loc
            /\ Flagged(c)

\* the thresholds a class violates, in the order methods, complexity, lines
Violations(c) ==
    (IF MethodCount(c) > max_methods
     THEN <<<<ToString(MethodCount(c)), " methods (max: ",
              ToString(max_methods), ")">>>> ELSE <<>>)
    \o (IF SummedComplexity(c) > max_cc
        THEN <<<<"complexity ", ToString(SummedComplexity(c)), " (max: ",
                 ToString(max_cc), ")">>>> ELSE <<>>)
    \o (IF LineSpan(c) > max_loc
        THEN <<<<ToString(LineSpan(c)), " lines (max: ",
                 ToString(max_loc), ")">>>> ELSE <<>>)

\* C10: check emits exactly one issue for each class declaration, at any
\* depth, that violates at least one threshold, its message listing every
\* violated threshold and no other, and nothing else; the method count is
\* the number of def statements directly in the class body and the summed
\* complexity is the sum of the cyclomatic complexity of exactly those
C10_OneIssuePerViolatingClass ==
    call.op = "god_check" =>
        /\ \A c \in ClassDecls(tree) :
                IF Violations(c) = <<>>
                THEN GodIssuesFor(issues, c) = {}
                ELSE /\ Cardinality(GodIssuesFor(issues, c)) = 1
                     /\ \A i \in GodIssuesFor(issues, c) :
                            issues[i].message[4] = Violations(c)
        /\ \A i \in 1..Len(issues) :
                \E c \in ClassDecls(tree) : i \in GodIssuesFor(issues, c)

\* a run where the outer class holds a nested class and a method with a def
\* nested in it, and is flagged once for two of the three thresholds
C10_Witness ==
    /\ call.op = "god_check"
    /\ \E c \in ClassDecls(tree) :
            /\ Len(Violations(c)) = 2
            /\ Cardinality(GodIssuesFor(issues, c)) = 1
            /\ \E i \in 1..Len(c.body) : c.body[i].kind = "ClassDef"
            /\ \E i \in 1..Len(c.body) :
                    /\ c.body[i].kind = "FunctionDef"
                    /\ \E j \in 1..Len(c.body[i].body) :
                            c.body[i].body[j].kind = "FunctionDef"

(***************************************************************************)
(* LongMethodRule (rules/long_method.py)                                   *)
(***************************************************************************)
LongMethodName == "LongMethod"

\* what one walked node adds to the complexity LongMethodRule computes
cyclomaticOf(child) ==
    IF child.kind \in {"If", "While", "For", "AsyncFor"} THEN 1
    ELSE IF child.kind = "ExceptHandler" THEN 1
    ELSE IF child.kind = "BoolOp" THEN Len(child.values) - 1
    ELSE IF child.kind \in {"ListComp", "DictComp", "SetComp", "GeneratorExp"}
         THEN SumSeq([g \in 1..Len(child.generators) |->
                        Len(child.generators[g].ifs)])
    ELSE IF child.kind \in {"With", "AsyncWith"} THEN 1
    ELSE 0

\* LongMethodRule.calculate_cyclomatic_complexity(node)
calculate_cyclomatic_complexity(node) ==
    LET nodes == walk(node)
    IN  1 + SumSeq([i \in 1..Len(nodes) |-> cyclomaticOf(nodes[i])])

\* LongMethodRule.count_loops(node)
count_loops(node) ==
    LET nodes == walk(node)
    IN  Cardinality({i \in 1..Len(nodes) :
                        nodes[i].kind \in {"For", "While", "AsyncFor"}})

\* the violation messages of one function, in the order they are appended
longProblemsOf(loc, cyclomatic, mloc, mcc) ==
    (IF loc > mloc
     THEN <<<<"LOC: ", ToString(loc), " (max: ", ToString(mloc), ")">>>>
     ELSE <<>>)
    \o (IF cyclomatic > mcc
        THEN <<<<"Cyclomatic Complexity: ", ToString(cyclomatic), " (max: ",
                 ToString(mcc), ")">>>>
        ELSE <<>>)

LongMessage(name, problems) ==
    <<"Method '", name, "' is too long: ", problems,
      ". Consider refactoring by extracting smaller methods.">>

\* the issues appended for one walked node
longIssuesOf(node, mloc, mcc) ==
    IF node.kind \notin {"FunctionDef", "AsyncFunctionDef"} THEN <<>>
    ELSE LET loc == IF "end_lineno" \in DOMAIN node /\ "lineno" \in DOMAIN node
                    THEN node.end_lineno - node.lineno + 1
                    ELSE 0
             cyclomatic == calculate_cyclomatic_complexity(node)
             problems == longProblemsOf(loc, cyclomatic, mloc, mcc)
         IN  IF problems # <<>>
             THEN <<[rule |-> LongMethodName, lineno |-> node.lineno,
                     end_lineno |-> node.end_lineno,
                     message |-> LongMessage(node.name, problems)]>>
             ELSE <<>>

\* LongMethodRule.check(tree) with thresholds mloc, mcc
LongMethod_check(t, mloc, mcc) ==
    LET nodes == walk(t)
    IN  Concat([i \in 1..Len(nodes) |-> longIssuesOf(nodes[i], mloc, mcc)])

(***************************************************************************)
(* Long-method runs: a module of up to MaxFunctions statements drawn from  *)
(* FunctionTemplates, checked by a rule constructed with thresholds from   *)
(* LocLimits and CcLimits.                                                 *)
(***************************************************************************)
MaxFunctions == 3

FunctionTemplates ==
    {"def pass", "def if", "def if a and b", "def nested if", "def zoo",
     "def assert", "async def", "class Inner"}

LocLimits == {2, 3, 30}
CcLimits == {1, 2, 7, 10}

\* the module statement a template stands for, at line l
FunctionStmt(template, l) ==
    IF template = "def assert"
    THEN Def("m", <<AssertStmt(Name("c", "Load", l + 1), l + 1)>>, l)
    ELSE Member(template, l)

RECURSIVE FunctionStmts(_, _)
FunctionStmts(templates, first) ==
    IF templates = <<>> THEN <<>>
    ELSE LET stmt == FunctionStmt(Head(templates), first)
         IN  <<stmt>> \o FunctionStmts(Tail(templates), stmt.end_lineno + 1)

InitLongMethod ==
    /\ \E templates \in TemplateSeqs(FunctionTemplates, MaxFunctions) :
            tree = Module(FunctionStmts(templates, 1))
    /\ long_max_loc \in LocLimits
    /\ long_max_cc \in CcLimits
    /\ issues = <<>>
    /\ call = NoCall
    /\ fs = [p \in Paths |-> Absent]
    /\ DeadCodeRule_init
    /\ GodClassRule_init
    /\ Cli_init
    /\ DuplicatedCodeRule_init

\* LongMethodRule.check(tree)
LongCheck ==
    /\ issues' = LongMethod_check(tree, long_max_loc, long_max_cc)
    /\ call' = [op |-> "long_check"]
    /\ UNCHANGED <<tree, deadVars, godVars, cliVars, longVars, dupVars>>

NextLongMethod == LongCheck

SpecLongMethod == InitLongMethod /\ [][NextLongMethod]_vars

(***************************************************************************)
(* Complexity runs: the two complexity operations called on every node of  *)
(* a module holding one statement of FunctionTemplates.                    *)
(***************************************************************************)
ComplexityTemplates ==
    FunctionTemplates \cup
    {"def for", "def while", "def async for", "def with", "def async with",
     "def try", "def comprehension", "def a or b or c"}

\* the module statement a template stands for, at line l
ComplexityStmt(template, l) ==
    CASE template = "def for" ->
            Def("m", <<Branch("For", Name("y", "Load", l + 1),
                              <<Pass(l + 2)>>, <<>>, l + 1)>>, l)
      [] template = "def while" ->
            Def("m", <<Branch("While", Name("c", "Load", l + 1),
                              <<Pass(l + 2)>>, <<Pass(l + 4)>>, l + 1)>>, l)
      [] template = "def async for" ->
            FunctionDef("AsyncFunctionDef", "m", NoArgs,
                        <<Branch("AsyncFor", Name("y", "Load", l + 1),
                                 <<Pass(l + 2)>>, <<>>, l + 1)>>, l)
      [] template = "def with" ->
            Def("m", <<With("With", <<Pass(l + 2)>>, l + 1)>>, l)
      [] template = "def async with" ->
            FunctionDef("AsyncFunctionDef", "m", NoArgs,
                        <<With("AsyncWith", <<Pass(l + 2)>>, l + 1)>>, l)
      [] template = "def try" ->
            Def("m", <<Try(<<Pass(l + 2)>>,
                           <<ExceptHandler(<<Pass(l + 4)>>, l + 3),
                             ExceptHandler(<<Pass(l + 6)>>, l + 5)>>,
                           <<>>, <<Pass(l + 8)>>, l + 1)>>, l)
      [] template = "def comprehension" ->
            Def("m", <<Return(l + 1),
                       Expr(ListComp(<<comprehension(<<Name("c", "Load", l + 2)>>),
                                       comprehension(<<>>),
                                       comprehension(<<Name("d", "Load", l + 2),
                                                       Name("e", "Load", l + 2)>>)>>,
                                     l + 2), l + 2)>>, l)
      [] template = "def a or b or c" ->
            Def("m", <<Expr(BoolOp(<<Name("a", "Load", l + 1),
                                     Name("b", "Load", l + 1),
                                     Name("c", "Load", l + 1)>>, l + 1),
                            l + 1)>>, l)
      [] OTHER -> FunctionStmt(template, l)

InitComplexity ==
    /\ \E template \in ComplexityTemplates :
            tree = Module(<<ComplexityStmt(template, 1)>>)
    /\ issues = <<>>
    /\ call = NoCall
    /\ fs = [p \in Paths |-> Absent]
    /\ DeadCodeRule_init
    /\ GodClassRule_init
    /\ Cli_init
    /\ LongMethodRule_init
    /\ DuplicatedCodeRule_init

\* GodClassRule.calculate_complexity(node) and
\* LongMethodRule.calculate_cyclomatic_complexity(node) on one node
CalculateComplexity(node) ==
    /\ call' = [op |-> "complexity", node |-> node,
                god |-> calculate_complexity(node),
                long |-> calculate_cyclomatic_complexity(node)]
    /\ UNCHANGED <<tree, issues, deadVars, godVars, cliVars, longVars, dupVars>>

NextComplexity ==
    \E i \in 1..Len(walk(tree)) : CalculateComplexity(walk(tree)[i])

SpecComplexity == InitComplexity /\ [][NextComplexity]_vars

(***************************************************************************)
(* Claims about LongMethodRule and the complexity metric                   *)
(***************************************************************************)
FunctionsOf(t) ==
    {node \in NodesOf(t) : node.kind \in {"FunctionDef", "AsyncFunctionDef"}}

\* the issues of a result list reported for the function f
LongIssuesFor(iss, f) ==
    {i \in 1..Len(iss) :
        /\ iss[i].rule = "LongMethod"
        /\ iss[i].lineno = f.lineno
        /\ iss[i].message[2] = f.name}

\* C11: check emits exactly one issue for each function or async function,
\* nested ones included, whose LOC (end - start + 1) is greater than max_loc
\* or whose cyclomatic complexity is greater than max_cc, and none for a
\* function at or below both thresholds
C11_OneIssuePerLongFunction ==
    call.op = "long_check" =>
        \A f \in FunctionsOf(tree) :
            Cardinality(LongIssuesFor(issues, f)) =
                IF \/ LineSpan(f) > long_max_loc
                   \/ CyclomaticComplexity(f) > long_max_cc
                THEN 1 ELSE 0

\* C12: the message of every LongMethod issue lists both metrics, LOC and
\* cyclomatic complexity, each with its observed value and its configured
\* maximum, also when only one threshold is exceeded
C12_MessageListsBothMetrics ==
    call.op = "long_check" =>
        \A f \in FunctionsOf(tree) : \A i \in LongIssuesFor(issues, f) :
            LET problems == issues[i].message[4]
            IN  /\ \E k \in 1..Len(problems) :
                        /\ problems[k][1] = "LOC: "
                        /\ problems[k][2] = ToString(LineSpan(f))
                        /\ problems[k][4] = ToString(long_max_loc)
                /\ \E k \in 1..Len(problems) :
                        /\ problems[k][1] = "Cyclomatic Complexity: "
                        /\ problems[k][4] = ToString(long_max_cc)

\* C13: for every subtree both GodClassRule.calculate_complexity and
\* LongMethodRule.calculate_cyclomatic_complexity return 1 + branches +
\* handlers + context managers + assertions + (operands - 1) per boolean
\* expression + filters per comprehension clause, over the whole subtree
C13_OneSharedComplexityMetric ==
    call.op = "complexity" =>
        /\ call.god = CyclomaticComplexity(call.node)
        /\ call.long = CyclomaticComplexity(call.node)

(***************************************************************************)
(* Python values as the normaliser builds them: str, None, int and tuple,  *)
(* each tagged with its type, and their str() text.                        *)
(***************************************************************************)
PyTuple(items) == [py |-> "tuple", items |-> items]

\* str(value): the repr of a str (no quote or escape in the model's strings),
\* None, an int, and a tuple with its one-element trailing comma
RECURSIVE str(_)
str(value) ==
    CASE value.py = "str" -> "'" \o value.s \o "'"
      [] value.py = "NoneType" -> "None"
      [] value.py = "int" -> ToString(value.n)
      [] value.py = "tuple" ->
            LET items == value.items
                Joined[i \in 0..Len(items)] ==
                    IF i = 0 THEN ""
                    ELSE IF i = 1 THEN str(items[1])
                    ELSE Joined[i - 1] \o ", " \o str(items[i])
            IN  IF Len(items) = 1 THEN "(" \o str(items[1]) \o ",)"
                ELSE "(" \o Joined[Len(items)] \o ")"

(***************************************************************************)
(* difflib.SequenceMatcher(None, a, b) over two strings.  Positions are    *)
(* 0-based and ranges half-open as in difflib; a[i] is CharAt(a, i).       *)
(***************************************************************************)
CharAt(s, i) == SubSeq(s, i + 1, i + 1)

\* the elements of b that autojunk drops from b2j: with 200 or more
\* elements, those occurring more than n // 100 + 1 times
bpopular(b) ==
    LET n == Len(b)
        ntest == n \div 100 + 1
        count(c) == Cardinality({j \in 0..(n - 1) : CharAt(b, j) = c})
    IN  IF n >= 200
        THEN {c \in {CharAt(b, j) : j \in 0..(n - 1)} : count(c) > ntest}
        ELSE {}

\* j2len[j] after row i: the length of the run of equal, non-popular
\* elements ending at a[i], b[j] inside the window
j2len(a, b, i, j, alo, blo, popular) ==
    LET equal(e) == /\ i - e >= alo /\ j - e >= blo
                    /\ CharAt(a, i - e) = CharAt(b, j - e)
                    /\ CharAt(b, j - e) \notin popular
    IN  CHOOSE d \in 0..(i - alo + 1) :
            ~ equal(d) /\ \A e \in 0..(d - 1) : equal(e)

\* what the main loop of find_longest_match keeps of the runs <<size, i, j>>
\* ending at a[i], b[j]: a longest one, the first that the scan over i and
\* then over j reaches
bestRun(found) ==
    Once(Once({r[1] : r \in found},
              LAMBDA sizes : CHOOSE k \in sizes : \A size \in sizes : size <= k),
         LAMBDA bestsize :
            Once({r \in found : r[1] = bestsize},
                 LAMBDA longest :
                    CHOOSE r \in longest :
                        \A q \in longest :
                            r[2] < q[2] \/ (r[2] = q[2] /\ r[3] <= q[3])))

\* the number of equal elements right before a[i], b[j] inside the window
extendBack(a, b, alo, blo, i, j) ==
    LET equal(e) == /\ i - e >= alo /\ j - e >= blo
                    /\ CharAt(a, i - e) = CharAt(b, j - e)
    IN  CHOOSE d \in 0..(i - alo) :
            ~ equal(d + 1) /\ \A e \in 1..d : equal(e)

\* the number of equal elements from a[i], b[j] on inside the window
extendForth(a, b, ahi, bhi, i, j) ==
    LET equal(e) == /\ i + e < ahi /\ j + e < bhi
                    /\ CharAt(a, i + e) = CharAt(b, j + e)
    IN  CHOOSE d \in 0..Max(ahi - i, 0) :
            ~ equal(d) /\ \A e \in 0..(d - 1) : equal(e)

\* SequenceMatcher.find_longest_match(alo, ahi, blo, bhi): the longest run,
\* the one starting earliest in a and then earliest in b, extended over
\* equal elements on both sides
find_longest_match(a, b, alo, ahi, blo, bhi) ==
    Once(bpopular(b), LAMBDA popular :
    Once({r \in {<<j2len(a, b, c[1], c[2], alo, blo, popular), c[1], c[2]>> :
                    c \in {c \in (alo..(ahi - 1)) \X (blo..(bhi - 1)) :
                              CharAt(a, c[1]) = CharAt(b, c[2])}} : r[1] > 0},
         LAMBDA found :
    Once(IF found = {} THEN <<0, alo - 1, blo - 1>> ELSE bestRun(found),
         LAMBDA run :
    Once(extendBack(a, b, alo, blo, run[2] - run[1] + 1, run[3] - run[1] + 1),
         LAMBDA back :
    Once(extendForth(a, b, ahi, bhi, run[2] + 1, run[3] + 1),
         LAMBDA forth :
            [a |-> run[2] - run[1] + 1 - back,
             b |-> run[3] - run[1] + 1 - back,
             size |-> run[1] + back + forth])))))

\* the total size of SequenceMatcher.get_matching_blocks(): the longest
\* match of the window, then the windows left and right of it
RECURSIVE matches(_, _, _, _, _, _)
matches(a, b, alo, ahi, blo, bhi) ==
    Once(find_longest_match(a, b, alo, ahi, blo, bhi), LAMBDA m :
        IF m.size = 0 THEN 0
        ELSE m.size
             + (IF alo < m.a /\ blo < m.b
                THEN matches(a, b, alo, m.a, blo, m.b) ELSE 0)
             + (IF m.a + m.size < ahi /\ m.b + m.size < bhi
                THEN matches(a, b, m.a + m.size, ahi, m.b + m.size, bhi)
                ELSE 0))

\* SequenceMatcher(None, a, b).ratio(): 2.0 * matches / (len(a) + len(b)),
\* 1.0 for two empty sequences
ratio(a, b) ==
    LET length == Len(a) + Len(b)
    IN  IF length > 0 THEN Ratio(2 * matches(a, b, 0, Len(a), 0, Len(b)), length)
        ELSE Ratio(1, 1)

\* float comparisons and sums on ratios
RatioGeq(r, t) == r.num * t.den >= t.num * r.den
RatioEq(r, t) == r.num * t.den = t.num * r.den
RECURSIVE gcd(_, _)
gcd(m, n) == IF n = 0 THEN m ELSE gcd(n, m % n)
RatioAdd(r, t) ==
    LET num == r.num * t.den + t.num * r.den
        den == r.den * t.den
        d == gcd(den, num)
    IN  Ratio(num \div d, den \div d)

(***************************************************************************)
(* DuplicatedCodeRule (rules/duplicated_code.py)                           *)
(***************************************************************************)
DuplicatedCodeName == "DuplicatedCode"

PyList(items) == [py |-> "list", items |-> items]

\* further nodes the normaliser meets: return with a value, global, a binary
\* operation and its operator
ReturnValue(value, l) ==
    [kind |-> "Return", value |-> value, lineno |-> l, end_lineno |-> l]
Global(names, l) ==
    [kind |-> "Global", names |-> names, lineno |-> l, end_lineno |-> l]
BinOp(left, op, right, l) ==
    [kind |-> "BinOp", left |-> left, op |-> [kind |-> op], right |-> right,
     lineno |-> l, end_lineno |-> l]

\* type(node.value).__name__ of a constant
typeName(value) == value.py

\* the value of an optional field of a node
Optional(node, field) ==
    IF field \in DOMAIN node THEN node[field] ELSE PyNone

\* ast.iter_fields(node) without the position fields: <<field, value>> in
\* the order of the class's _fields (Python 3.11), a value being a node, a
\* list, a str or None
iter_fields(node) ==
    CASE node.kind \in {"Pass", "Break", "Continue", "Add", "Sub", "Mult"} ->
            <<>>
      [] node.kind = "Return" -> <<<<"value", Optional(node, "value")>>>>
      [] node.kind = "Raise" ->
            <<<<"exc", Optional(node, "exc")>>,
              <<"cause", Optional(node, "cause")>>>>
      [] node.kind = "Expr" -> <<<<"value", node.value>>>>
      [] node.kind = "Assign" ->
            <<<<"targets", PyList(node.targets)>>, <<"value", node.value>>,
              <<"type_comment", PyNone>>>>
      [] node.kind = "Global" ->
            <<<<"names", PyList([i \in 1..Len(node.names) |->
                                    PyStr(node.names[i])])>>>>
      [] node.kind = "Attribute" ->
            <<<<"value", node.value>>, <<"attr", PyStr(node.attr)>>,
              <<"ctx", PyStr(node.ctx)>>>>
      [] node.kind = "Call" ->
            <<<<"func", node.func>>, <<"args", PyList(<<>>)>>,
              <<"keywords", PyList(<<>>)>>>>
      [] node.kind = "BinOp" ->
            <<<<"left", node.left>>, <<"op", node.op>>,
              <<"right", node.right>>>>
      [] node.kind \in {"If", "While"} ->
            <<<<"test", node.test>>, <<"body", PyList(node.body)>>,
              <<"orelse", PyList(node.orelse)>>>>

\* DuplicatedCodeRule._normalize_code(node)
RECURSIVE _normalize_code(_)
_normalize_code(node) ==
    IF "kind" \in DOMAIN node /\ node.kind = "Name" THEN PyStr("VAR")
    ELSE IF "kind" \in DOMAIN node /\ node.kind = "Constant"
    THEN PyStr("CONST_" \o typeName(node.value))
    ELSE IF "kind" \notin DOMAIN node /\ node.py = "list"
    THEN PyTuple([i \in 1..Len(node.items) |-> _normalize_code(node.items[i])])
    ELSE IF "kind" \in DOMAIN node
    THEN LET fields == SelectSeq(iter_fields(node), LAMBDA f : f[1] # "ctx")
         IN  PyTuple(<<PyStr(node.kind)>> \o
                     [i \in 1..Len(fields) |->
                        PyTuple(<<PyStr(fields[i][1]),
                                  _normalize_code(fields[i][2])>>)])
    ELSE node

\* DuplicatedCodeRule._calculate_similarity(code1, code2)
_calculate_similarity(code1, code2) ==
    Once(str(code1), LAMBDA a : Once(str(code2), LAMBDA b : ratio(a, b)))

\* tuple(self._normalize_code(stmt) for stmt in statements)
normalizedOf(statements) ==
    PyTuple([i \in 1..Len(statements) |-> _normalize_code(statements[i])])

\* DuplicatedCodeRule._extract_all_functions(tree)
_extract_all_functions(t, min) ==
    LET nodes == walk(t)
        info(node) ==
            IF node.kind \in {"FunctionDef", "AsyncFunctionDef"}
               /\ Len(node.body) >= min
            THEN <<[name |-> node.name, lineno |-> node.lineno,
                    end_lineno |-> node.end_lineno,
                    statements |-> Len(node.body),
                    normalized |-> normalizedOf(node.body),
                    body |-> node.body]>>
            ELSE <<>>
    IN  Concat([i \in 1..Len(nodes) |-> info(nodes[i])])

\* f"{value:.1%}": the value in tenths of a percent, rounded to nearest
FormatPercent(r) ==
    LET q1 == (10 * r.num) \div r.den
        r1 == (10 * r.num) % r.den
        q2 == (10 * r1) \div r.den
        r2 == (10 * r1) % r.den
        q3 == (10 * r2) \div r.den
        rem == (10 * r2) % r.den
        q0 == 100 * q1 + 10 * q2 + q3
        q == IF 2 * rem > r.den \/ (2 * rem = r.den /\ q0 % 2 = 1)
             THEN q0 + 1 ELSE q0
    IN  ToString(q \div 10) \o "." \o ToString(q % 10) \o "%"

\* [f['name'] for f in group]
namesOf(group) == {group[k].name : k \in 1..Len(group)}

inGroup(func, group) == \E k \in 1..Len(group) : group[k] = func

\* one iteration of the pair loop of _check_function_to_function: st holds
\* compared (a pair key is the sorted name pair, kept as the set of the two
\* names) and similar_groups, and in evaluated the calls of
\* _calculate_similarity made so far, each as the lines of its two functions
comparePair(st, func1, func2, threshold) ==
    LET pair_key == {func1.name, func2.name}
        groups == st.similar_groups
        hits == {k \in 1..Len(groups) :
                    \/ func1.name \in namesOf(groups[k][2])
                    \/ func2.name \in namesOf(groups[k][2])}
        k == CHOOSE h \in hits : \A g \in hits : h <= g
        group == groups[k][2]
        added == IF func1.name \in namesOf(group)
                 THEN IF inGroup(func2, group) THEN group
                      ELSE Append(group, func2)
                 ELSE IF inGroup(func1, group) THEN group
                      ELSE Append(group, func1)
        group_id == func1.name \o "_" \o func2.name
        evaluation == <<func1.lineno, func2.lineno>>
    IN  IF pair_key \in st.compared THEN st
        ELSE Once(_calculate_similarity(func1.normalized, func2.normalized),
                  LAMBDA similarity :
                    IF ~RatioGeq(similarity, threshold)
                    THEN [st EXCEPT !.compared = @ \cup {pair_key},
                                    !.evaluated = Append(@, evaluation)]
                    ELSE [compared |-> st.compared \cup {pair_key},
                          evaluated |-> Append(st.evaluated, evaluation),
                          similar_groups |->
                            IF hits # {}
                            THEN [groups EXCEPT ![k] = <<groups[k][1], added>>]
                            ELSE DictSet(groups, group_id, <<func1, func2>>)])

\* the pairs <<i, j>> with i < j that the two loops over n functions reach,
\* in loop order
pairOrder(n) == Concat([i \in 1..n |-> [d \in 1..(n - i) |-> <<i, i + d>>]])

\* the pair loops: i over the functions, j over the functions, i < j only
comparePairs(st, functions, threshold) ==
    LET pairs == pairOrder(Len(functions))
        after[n \in 0..Len(pairs)] ==
            IF n = 0 THEN st
            ELSE Once(after[n - 1], LAMBDA before :
                        comparePair(before, functions[pairs[n][1]],
                                    functions[pairs[n][2]], threshold))
    IN  after[Len(pairs)]

\* unique_funcs: the first function of each name, in group order
uniqueFuncs(group) ==
    SelectSeqIdx(group, LAMBDA k : \A h \in 1..(k - 1) :
                                        group[h].name # group[k].name)

\* the mean of the pairwise similarities of a group of two or more
avgSimilarity(group) ==
    LET pairs == pairOrder(Len(group))
        total[n \in 0..Len(pairs)] ==
            IF n = 0 THEN Ratio(0, 1)
            ELSE Once(total[n - 1], LAMBDA sum :
                 Once(_calculate_similarity(group[pairs[n][1]].normalized,
                                            group[pairs[n][2]].normalized),
                      LAMBDA similarity : RatioAdd(sum, similarity)))
    IN  IF pairs # <<>>
        THEN Once(total[Len(pairs)],
                  LAMBDA sum : Ratio(sum.num, sum.den * Len(pairs)))
        ELSE Ratio(0, 1)

SimilarFunctionsMessage(group) ==
    <<"Similar function implementations (similarity: ",
      Once(avgSimilarity(group), LAMBDA avg_similarity :
                                    FormatPercent(avg_similarity)), "): ",
      [k \in 1..Len(group) |->
          <<group[k].name, "() (line ", ToString(group[k].lineno), ", ",
            ToString(group[k].statements), " statements)">>],
      ". Consider refactoring into a single function.">>

\* the reporting loop without the test against reported_functions
RECURSIVE reportGroups_overlapping(_, _, _)
reportGroups_overlapping(out, groups, g) ==
    IF g > Len(groups) THEN out.issues
    ELSE LET picked == uniqueFuncs(groups[g][2])
             group == [k \in 1..Len(picked) |-> groups[g][2][picked[k]]]
         IN  IF Len(group) >= 2
             THEN Once([issues |-> Append(out.issues,
                            [rule |-> DuplicatedCodeName,
                             lineno |-> group[1].lineno,
                             end_lineno |-> group[1].end_lineno,
                             message |-> SimilarFunctionsMessage(group)]),
                        reported_functions |-> out.reported_functions],
                       LAMBDA reported :
                            reportGroups_overlapping(reported, groups, g + 1))
             ELSE reportGroups_overlapping(out, groups, g + 1)

\* the reporting loop over similar_groups: out holds issues and
\* reported_functions
RECURSIVE reportGroups(_, _, _)
reportGroups(out, groups, g) ==
    IF g > Len(groups) THEN out.issues
    ELSE LET picked == uniqueFuncs(groups[g][2])
             group == [k \in 1..Len(picked) |-> groups[g][2][picked[k]]]
             group_names == namesOf(group)
         IN  IF Len(group) >= 2 /\ group_names \cap out.reported_functions = {}
             THEN Once([issues |-> Append(out.issues,
                            [rule |-> DuplicatedCodeName,
                             lineno |-> group[1].lineno,
                             end_lineno |-> group[1].end_lineno,
                             message |-> SimilarFunctionsMessage(group)]),
                        reported_functions |->
                            out.reported_functions \cup group_names],
                       LAMBDA reported : reportGroups(reported, groups, g + 1))
             ELSE reportGroups(out, groups, g + 1)

\* compared and similar_groups, issues and reported_functions as
\* _check_function_to_function creates them
NothingCompared ==
    [compared |-> {}, similar_groups |-> <<>>, evaluated |-> <<>>]
NothingReported == [issues |-> <<>>, reported_functions |-> {}]

\* DuplicatedCodeRule._check_function_to_function(functions)
_check_function_to_function(functions, threshold) ==
    Once(comparePairs(NothingCompared, functions, threshold),
         LAMBDA st : reportGroups(NothingReported, st.similar_groups, 1))

Min2(a, b) == IF a <= b THEN a ELSE b

\* _extract_code_blocks with the parent's line as the end line of each window
_extract_code_blocks_parentLine(statements, min_size, parent_name, parent_lineno) ==
    LET n == Len(statements)
        block(i, window_size) ==
            LET stmts == SubSeq(statements, i + 1, i + window_size)
            IN  [parent |-> parent_name, parent_lineno |-> parent_lineno,
                 start_line |-> stmts[1].lineno,
                 end_line |-> parent_lineno,
                 statements |-> Len(stmts),
                 normalized |-> normalizedOf(stmts)]
        windows(i) ==
            LET sizes == min_size..(Min2(n - i + 1, min_size + 5) - 1)
            IN  [w \in 1..Cardinality(sizes) |-> block(i, min_size + w - 1)]
    IN  IF n < min_size THEN <<>>
        ELSE Concat([i \in 1..(n - min_size + 1) |-> windows(i - 1)])

\* _extract_code_blocks without the cap of min_size + 4 on the window size
_extract_code_blocks_uncapped(statements, min_size, parent_name, parent_lineno) ==
    LET n == Len(statements)
        block(i, window_size) ==
            LET stmts == SubSeq(statements, i + 1, i + window_size)
            IN  [parent |-> parent_name, parent_lineno |-> parent_lineno,
                 start_line |-> stmts[1].lineno,
                 end_line |-> Last(stmts).lineno,
                 statements |-> Len(stmts),
                 normalized |-> normalizedOf(stmts)]
        windows(i) ==
            LET sizes == min_size..(n - i)
            IN  [w \in 1..Cardinality(sizes) |-> block(i, min_size + w - 1)]
    IN  IF n < min_size THEN <<>>
        ELSE Concat([i \in 1..(n - min_size + 1) |-> windows(i - 1)])

\* DuplicatedCodeRule._extract_code_blocks(statements, min_size, parent_name,
\* parent_lineno): the windows of min_size to min_size + 4 statements
_extract_code_blocks(statements, min_size, parent_name, parent_lineno) ==
    LET n == Len(statements)
        block(i, window_size) ==
            LET stmts == SubSeq(statements, i + 1, i + window_size)
            IN  [parent |-> parent_name, parent_lineno |-> parent_lineno,
                 start_line |-> stmts[1].lineno,
                 end_line |-> Last(stmts).lineno,
                 statements |-> Len(stmts),
                 normalized |-> normalizedOf(stmts)]
        windows(i) ==
            LET sizes == min_size..(Min2(n - i + 1, min_size + 5) - 1)
            IN  [w \in 1..Cardinality(sizes) |-> block(i, min_size + w - 1)]
    IN  IF n < min_size THEN <<>>
        ELSE Concat([i \in 1..(n - min_size + 1) |-> windows(i - 1)])

DuplicatedBlockMessage(func, block1, block2, similarity) ==
    <<"Duplicated code block in function '", func.name, "' (similarity: ",
      FormatPercent(similarity), "): lines ", ToString(block1.start_line),
      "-", ToString(block1.end_line), " and ", ToString(block2.start_line),
      "-", ToString(block2.end_line), " (", ToString(block1.statements),
      " statements). Consider extracting to a separate function.">>

\* the block loops without the test for overlapping windows
RECURSIVE scanBlocks_overlapping(_, _, _, _, _)
scanBlocks_overlapping(func, blocks, i, j, threshold) ==
    IF i > Len(blocks) THEN <<>>
    ELSE IF j > Len(blocks)
    THEN scanBlocks_overlapping(func, blocks, i + 1, 1, threshold)
    ELSE LET block1 == blocks[i]
             block2 == blocks[j]
         IN  IF i >= j
             THEN scanBlocks_overlapping(func, blocks, i, j + 1, threshold)
             ELSE Once(_calculate_similarity(block1.normalized,
                                             block2.normalized),
                       LAMBDA similarity :
                IF RatioGeq(similarity, threshold)
                THEN <<[rule |-> DuplicatedCodeName,
                        lineno |-> block1.start_line,
                        end_lineno |-> block1.end_line,
                        message |-> DuplicatedBlockMessage(func, block1, block2,
                                                           similarity)]>>
                ELSE scanBlocks_overlapping(func, blocks, i, j + 1, threshold))

\* the block loops without the two breaks: every pair that reaches the
\* threshold is reported
RECURSIVE scanBlocks_all(_, _, _, _, _)
scanBlocks_all(func, blocks, i, j, threshold) ==
    IF i > Len(blocks) THEN <<>>
    ELSE IF j > Len(blocks) THEN scanBlocks_all(func, blocks, i + 1, 1, threshold)
    ELSE LET block1 == blocks[i]
             block2 == blocks[j]
         IN  IF i >= j THEN scanBlocks_all(func, blocks, i, j + 1, threshold)
             ELSE IF ~ (\/ block1.end_line < block2.start_line
                        \/ block2.end_line < block1.start_line)
             THEN scanBlocks_all(func, blocks, i, j + 1, threshold)
             ELSE Once(_calculate_similarity(block1.normalized,
                                             block2.normalized),
                       LAMBDA similarity :
                (IF RatioGeq(similarity, threshold)
                 THEN <<[rule |-> DuplicatedCodeName,
                         lineno |-> block1.start_line,
                         end_lineno |-> block1.end_line,
                         message |-> DuplicatedBlockMessage(func, block1,
                                                            block2, similarity)]>>
                 ELSE <<>>)
                \o scanBlocks_all(func, blocks, i, j + 1, threshold))

\* the block loops of one function: the first pair i < j of windows that do
\* not overlap and reach the threshold is reported, and both loops end
RECURSIVE scanBlocks(_, _, _, _, _)
scanBlocks(func, blocks, i, j, threshold) ==
    IF i > Len(blocks) THEN <<>>
    ELSE IF j > Len(blocks) THEN scanBlocks(func, blocks, i + 1, 1, threshold)
    ELSE LET block1 == blocks[i]
             block2 == blocks[j]
         IN  IF i >= j THEN scanBlocks(func, blocks, i, j + 1, threshold)
             ELSE IF ~ (\/ block1.end_line < block2.start_line
                        \/ block2.end_line < block1.start_line)
             THEN scanBlocks(func, blocks, i, j + 1, threshold)
             ELSE Once(_calculate_similarity(block1.normalized,
                                             block2.normalized),
                       LAMBDA similarity :
                IF RatioGeq(similarity, threshold)
                THEN <<[rule |-> DuplicatedCodeName,
                        lineno |-> block1.start_line,
                        end_lineno |-> block1.end_line,
                        message |-> DuplicatedBlockMessage(func, block1, block2,
                                                           similarity)]>>
                ELSE scanBlocks(func, blocks, i, j + 1, threshold))

\* DuplicatedCodeRule._check_within_functions(functions)
_check_within_functions(functions, min, threshold) ==
    LET within(func) ==
            IF func.statements < min * 2 THEN <<>>
            ELSE Once(_extract_code_blocks(func.body, min,
                                           <<"function:", func.name>>,
                                           func.lineno),
                      LAMBDA blocks : scanBlocks(func, blocks, 1, 1, threshold))
    IN  Concat([f \in 1..Len(functions) |-> within(functions[f])])

\* check without the tests of check_between_functions and
\* check_within_functions
DuplicatedCode_check_unflagged(t, threshold, min, within, between) ==
    Once(_extract_all_functions(t, min), LAMBDA functions :
        (IF Len(functions) >= 2
         THEN _check_function_to_function(functions, threshold) ELSE <<>>)
        \o _check_within_functions(functions, min, threshold))

\* DuplicatedCodeRule.check(tree) with the rule's configuration
DuplicatedCode_check(t, threshold, min, within, between) ==
    Once(_extract_all_functions(t, min), LAMBDA functions :
        (IF between /\ Len(functions) >= 2
         THEN _check_function_to_function(functions, threshold) ELSE <<>>)
        \o (IF within
            THEN _check_within_functions(functions, min, threshold)
            ELSE <<>>))

(***************************************************************************)
(* Duplicated-code runs: a module of up to four functions, each with a     *)
(* body of its slot's templates written with the slot's variable name,     *)
(* checked by a rule constructed with one of DupConfigs.                   *)
(***************************************************************************)
BodyTemplates ==
    {"pass", "pass; pass", "pass; pass; pass", "pass; pass; pass; pass",
     "global v", "v; pass; return v"}

\* the statements of a body written with variable v, from line l
BodyOf(template, v, l) ==
    CASE template = "pass" -> <<Pass(l)>>
      [] template = "pass; pass" -> <<Pass(l), Pass(l + 1)>>
      [] template = "pass; pass; pass" -> <<Pass(l), Pass(l + 1), Pass(l + 2)>>
      [] template = "pass; pass; pass; pass" ->
            <<Pass(l), Pass(l + 1), Pass(l + 2), Pass(l + 3)>>
      [] template = "global v" -> <<Global(<<v>>, l)>>
      [] template = "v; pass; return v" ->
            <<Expr(Name(v, "Load", l), l), Pass(l + 1),
              ReturnValue(Name(v, "Load", l + 2), l + 2)>>

\* per slot of the module: the function names, the variable the function is
\* written with, the bodies, and whether the slot may be empty
SlotNames == <<{"f"}, {"f", "g"}, {"h"}, {"k"}>>
SlotVariable == <<"a", "x", "p", "q">>
SlotBodies ==
    <<{"pass", "v; pass; return v"},
      {"pass", "pass; pass; pass; pass", "v; pass; return v"},
      {"pass; pass", "pass; pass; pass; pass"},
      {"pass; pass; pass", "pass; pass; pass; pass"}>>
SlotOptional == <<FALSE, FALSE, TRUE, TRUE>>

\* what a slot of the module holds: nothing, or a function name and body
SlotChoices(k) ==
    (IF SlotOptional[k] THEN {<<>>} ELSE {})
    \cup {<<name, template>> : name \in SlotNames[k],
                               template \in SlotBodies[k]}

RECURSIVE DupFunctions(_, _, _)
DupFunctions(choices, k, first) ==
    IF k > Len(choices) THEN <<>>
    ELSE IF choices[k] = <<>> THEN DupFunctions(choices, k + 1, first)
    ELSE LET f == Def(choices[k][1],
                      BodyOf(choices[k][2], SlotVariable[k], first + 1),
                      first)
         IN  <<f>> \o DupFunctions(choices, k + 1, f.end_lineno + 1)

\* similarity_threshold, min_statements, check_within_functions,
\* check_between_functions
DupConfigs ==
    {<<Ratio(85, 100), 3, TRUE, TRUE>>, <<Ratio(85, 100), 1, TRUE, TRUE>>,
     <<Ratio(70, 100), 1, FALSE, TRUE>>, <<Ratio(60, 100), 2, TRUE, FALSE>>}

InitDuplicated ==
    /\ \E c1 \in SlotChoices(1), c2 \in SlotChoices(2),
          c3 \in SlotChoices(3), c4 \in SlotChoices(4) :
            tree = Module(DupFunctions(<<c1, c2, c3, c4>>, 1, 1))
    /\ \E config \in DupConfigs :
            /\ similarity_threshold = config[1]
            /\ min_statements = config[2]
            /\ check_within_functions = config[3]
            /\ check_between_functions = config[4]
    /\ issues = <<>>
    /\ call = NoCall
    /\ fs = [p \in Paths |-> Absent]
    /\ DeadCodeRule_init
    /\ GodClassRule_init
    /\ Cli_init
    /\ LongMethodRule_init

\* DuplicatedCodeRule.check(tree)
DupCheck ==
    /\ issues' = DuplicatedCode_check(tree, similarity_threshold,
                                      min_statements, check_within_functions,
                                      check_between_functions)
    /\ call' = [op |-> "dup_check"]
    /\ UNCHANGED <<tree, deadVars, godVars, cliVars, longVars, dupVars>>

NextDuplicated == DupCheck

SpecDuplicated == InitDuplicated /\ [][NextDuplicated]_vars

(***************************************************************************)
(* Project runs over a root that holds proj/a.py and one file lib.py in a  *)
(* directory of ExcludedDirs.                                              *)
(***************************************************************************)
ExcludedDirs == {"venv", ".venv", ".git", "__pycache__", "node_modules"}

LibContents == TemplateSeqs(ProjectTemplates, 1) \cup {<<"<unparsable>">>}

InitExcluded ==
    /\ \E dir \in ExcludedDirs, content \in FileContents, lib \in LibContents :
            fs = (<<"proj", "a.py">> :> FileOf(content))
                 @@ (<<"proj", dir, "lib.py">> :> FileOf(lib))
    /\ tree = Module(<<>>)
    /\ issues = <<>>
    /\ call = NoCall
    /\ DeadCodeRule_init
    /\ GodClassRule_init
    /\ Cli_init
    /\ LongMethodRule_init
    /\ DuplicatedCodeRule_init

NextExcluded ==
    \E py_files \in Orderings(rglob(fs, <<"proj">>)) :
        AnalyzeProject(<<"proj">>, py_files)

SpecExcluded == InitExcluded /\ [][NextExcluded]_vars

(***************************************************************************)
(* Runs of all five rules: a module of up to MaxUnits functions and        *)
(* classes, each rule constructed with its defaults or with low            *)
(* thresholds, and each rule's check called on the module.                 *)
(***************************************************************************)
MaxUnits == 2

UnitTemplates ==
    {"def f(x=[])", "def g: return; print()", "class C: m; n",
     "def h: pass; pass; pass; pass", "def k: pass"}

\* the module statement a template stands for, at line l
UnitStmt(template, l) ==
    CASE template = "def f(x=[])" ->
            FunctionDef("FunctionDef", "f",
                        arguments(<<Display("List", l)>>, <<>>),
                        <<Pass(l + 1)>>, l)
      [] template = "def g: return; print()" ->
            Def("g", <<Return(l + 1), CallStmt("print", l + 2)>>, l)
      [] template = "class C: m; n" ->
            ClassDef("C", <<Def("m", <<Pass(l + 2)>>, l + 1),
                            Def("n", <<Pass(l + 4)>>, l + 3)>>, l)
      [] template = "def h: pass; pass; pass; pass" ->
            Def("h", BodyOf("pass; pass; pass; pass", "a", l + 1), l)
      [] template = "def k: pass" -> Def("k", <<Pass(l + 1)>>, l)

RECURSIVE UnitStmts(_, _)
UnitStmts(templates, first) ==
    IF templates = <<>> THEN <<>>
    ELSE LET stmt == UnitStmt(Head(templates), first)
         IN  <<stmt>> \o UnitStmts(Tail(templates), stmt.end_lineno + 1)

InitAllRules ==
    /\ \E templates \in TemplateSeqs(UnitTemplates, MaxUnits) :
            tree = Module(UnitStmts(templates, 1))
    /\ \/ GodClassRule_init /\ LongMethodRule_init /\ DuplicatedCodeRule_init
       \/ /\ max_methods = 1 /\ max_cc = 35 /\ max_loc = 100
          /\ long_max_loc = 2 /\ long_max_cc = 10
          /\ similarity_threshold = Ratio(85, 100)
          /\ min_statements = 1
          /\ check_within_functions = TRUE
          /\ check_between_functions = TRUE
    /\ issues = <<>>
    /\ call = NoCall
    /\ fs = [p \in Paths |-> Absent]
    /\ DeadCodeRule_init
    /\ Cli_init

NextAllRules ==
    \/ DeadCheck
    \/ MutableCheck
    \/ GodCheck
    \/ LongCheck
    \/ DupCheck

SpecAllRules == InitAllRules /\ [][NextAllRules]_vars

(***************************************************************************)
(* Similarity runs: two statements are normalised and compared, in both    *)
(* orders.                                                                 *)
(***************************************************************************)
SimilarityVariables == {"a", "x"}

\* the statements compared, at line l
SimilarityStmts(l) ==
    {Pass(l), Continue(l), Return(l),
     ReturnValue(Constant(PyInt(1), l), l), ReturnValue(Constant(PyInt(2), l), l),
     ReturnValue(Constant(PyStr("s"), l), l)}
    \cup {Expr(Name(v, "Load", l), l) : v \in SimilarityVariables}
    \cup {ReturnValue(Name(v, "Load", l), l) : v \in SimilarityVariables}
    \cup {Global(<<v>>, l) : v \in SimilarityVariables}
    \cup {Expr(BinOp(Name(v, "Load", l), "Add", Constant(PyInt(1), l), l), l) :
            v \in SimilarityVariables}

InitSimilarity ==
    /\ \E s1 \in SimilarityStmts(1), s2 \in SimilarityStmts(2) :
            tree = Module(<<s1, s2>>)
    /\ issues = <<>>
    /\ call = NoCall
    /\ fs = [p \in Paths |-> Absent]
    /\ DeadCodeRule_init
    /\ GodClassRule_init
    /\ Cli_init
    /\ LongMethodRule_init
    /\ DuplicatedCodeRule_init

\* _normalize_code on both statements, then _calculate_similarity on the two
\* normalized forms in both orders
CalculateSimilarity ==
    /\ call = NoCall
    /\ LET code1 == _normalize_code(tree.body[1])
           code2 == _normalize_code(tree.body[2])
       IN  call' = [op |-> "similarity", code1 |-> code1, code2 |-> code2,
                    forward |-> _calculate_similarity(code1, code2),
                    backward |-> _calculate_similarity(code2, code1)]
    /\ UNCHANGED <<tree, issues, deadVars, godVars, cliVars, longVars, dupVars>>

NextSimilarity == CalculateSimilarity

SpecSimilarity == InitSimilarity /\ [][NextSimilarity]_vars

(***************************************************************************)
(* Claims about DuplicatedCodeRule's between-function detection            *)
(***************************************************************************)
\* a subtree without its positions, identifiers and literal values: the
\* literal keeps its type
RECURSIVE Shape(_)
Shape(node) ==
    CASE node.kind = "Name" -> <<"Name", node.ctx>>
      [] node.kind = "Constant" -> <<"Constant", typeName(node.value)>>
      [] node.kind = "Expr" -> <<"Expr", Shape(node.value)>>
      [] node.kind = "Return" ->
            IF "value" \in DOMAIN node THEN <<"Return", Shape(node.value)>>
            ELSE <<"Return">>
      [] node.kind = "Global" -> <<"Global", Len(node.names)>>
      [] node.kind = "BinOp" ->
            <<"BinOp", Shape(node.left), node.op.kind, Shape(node.right)>>
      [] OTHER -> <<node.kind>>

\* the identifiers of a subtree, in source order
RECURSIVE Identifiers(_)
Identifiers(node) ==
    CASE node.kind = "Name" -> <<node.id>>
      [] node.kind = "Expr" -> Identifiers(node.value)
      [] node.kind = "Return" ->
            IF "value" \in DOMAIN node THEN Identifiers(node.value) ELSE <<>>
      [] node.kind = "Global" -> node.names
      [] node.kind = "BinOp" ->
            Identifiers(node.left) \o Identifiers(node.right)
      [] OTHER -> <<>>

\* two statement lists are identical up to a one-to-one renaming of
\* identifiers and a change of literal values
SameUpToRenaming(body1, body2) ==
    LET ids1 == Concat([i \in 1..Len(body1) |-> Identifiers(body1[i])])
        ids2 == Concat([i \in 1..Len(body2) |-> Identifiers(body2[i])])
    IN  /\ [i \in 1..Len(body1) |-> Shape(body1[i])]
            = [i \in 1..Len(body2) |-> Shape(body2[i])]
        /\ \A i, j \in 1..Len(ids1) :
                (ids1[i] = ids1[j]) <=> (ids2[i] = ids2[j])

\* the similarity-group issues of a result list
GroupIssues(iss) ==
    {i \in 1..Len(iss) :
        /\ iss[i].rule = "DuplicatedCode"
        /\ iss[i].message[1] = "Similar function implementations (similarity: "}

\* the functions a similarity-group issue names, each by name and line
MembersOf(issue) ==
    {<<issue.message[4][k][1], issue.message[4][k][3]>> :
        k \in 1..Len(issue.message[4])}

\* C14: any two functions of the file whose bodies have at least
\* min_statements statements and are identical up to renaming of variables
\* are named together by one similarity-group issue; a function with fewer
\* than min_statements statements is named by none; and with the default
\* configuration a file of exactly two renamed-identical functions of three
\* statements gets exactly one DuplicatedCode issue
C14_RenamedFunctionsReportedTogether ==
    (call.op = "dup_check" /\ check_between_functions) =>
        LET functions == FunctionsOf(tree)
            member(f) == <<f.name, ToString(f.lineno)>>
            default == /\ similarity_threshold = Ratio(85, 100)
                       /\ min_statements = 3
                       /\ check_within_functions
        IN  /\ \A f1, f2 \in functions :
                    (/\ f1 # f2
                     /\ Len(f1.body) >= min_statements
                     /\ Len(f2.body) >= min_statements
                     /\ SameUpToRenaming(f1.body, f2.body))
                    => \E i \in GroupIssues(issues) :
                            {member(f1), member(f2)} \subseteq MembersOf(issues[i])
            /\ \A f \in functions :
                    Len(f.body) < min_statements
                    => \A i \in GroupIssues(issues) :
                            member(f) \notin MembersOf(issues[i])
            /\ (/\ default
                 /\ Cardinality(functions) = 2
                 /\ \A f1, f2 \in functions :
                        Len(f1.body) = 3 /\ SameUpToRenaming(f1.body, f2.body))
                => Len(issues) = 1

\* C15: no function is named by two similarity-group issues of one result,
\* and every similarity-group issue names at least two distinct functions
C15_GroupsDisjoint ==
    call.op = "dup_check" =>
        /\ \A i, j \in GroupIssues(issues) :
                i # j => MembersOf(issues[i]) \cap MembersOf(issues[j]) = {}
        /\ \A i \in GroupIssues(issues) :
                /\ Cardinality(MembersOf(issues[i])) >= 2
                /\ Cardinality({m[1] : m \in MembersOf(issues[i])}) >= 2

\* two similarity groups are reported by one check
C15_Witness ==
    /\ call.op = "dup_check"
    /\ Cardinality(GroupIssues(issues)) >= 2

(***************************************************************************)
(* Claims about normalization and the similarity score                     *)
(***************************************************************************)
\* C16: two subtrees identical up to renaming identifiers and changing
\* literal values have equal normalized forms, and the similarity of their
\* normalized forms is 1.0
C16_RenamingInvariance ==
    (call.op = "similarity"
     /\ SameUpToRenaming(<<tree.body[1]>>, <<tree.body[2]>>)) =>
        /\ call.code1 = call.code2
        /\ RatioEq(call.forward, Ratio(1, 1))

\* C17: the similarity of two normalized forms is the same in both orders,
\* lies in [0, 1], and is 2 x matches / (len(a) + len(b)) over the two
\* serialized strings
C17_SimilaritySymmetricBounded ==
    call.op = "similarity" =>
        LET a == str(call.code1)
            b == str(call.code2)
        IN  /\ RatioEq(call.forward, call.backward)
            /\ RatioGeq(call.forward, Ratio(0, 1))
            /\ RatioGeq(Ratio(1, 1), call.forward)
            /\ RatioEq(call.forward,
                       Ratio(2 * matches(a, b, 0, Len(a), 0, Len(b)),
                             Len(a) + Len(b)))

(***************************************************************************)
(* Claims about the project-wide collection                                *)
(***************************************************************************)
\* the issues of a result list reported on one of the files of S
IssuesOn(iss, S) ==
    SelectSeq(iss, LAMBDA i : "file" \in DOMAIN i /\ i.file \in S)

\* the files a check_project call on the root discovers and cannot parse
FailingFiles(root) == {p \in rglob(fs, root) : ~Parses(fs, p)}

ExcludedParents(p) ==
    {p[k] : k \in 1..(Len(p) - 1)} \cap ExcludedDirs

\* C19: check_project never parses a file that lies in a directory such as
\* venv, .venv, .git, __pycache__ or node_modules below the root: the file
\* gets no entry in all_definitions, all_usages and all_imports, and no issue
\* is reported on it
C19_ExcludedDirectoriesSkipped ==
    call.op = "check_project" =>
        \A p \in DOMAIN fs :
            ExcludedParents(p) # {} =>
                /\ p \notin DictKeys(all_definitions)
                /\ p \notin DictKeys(all_usages)
                /\ p \notin DictKeys(all_imports)
                /\ IssuesOn(issues, {p}) = <<>>

(***************************************************************************)
(* Claim about the issues of all rules                                     *)
(***************************************************************************)
\* the name of the rule whose check was called
EmittingRule ==
    CASE call.op = "check" -> "DeadCode"
      [] call.op = "mutable_check" -> "MutableDefaultArguments"
      [] call.op = "god_check" -> "GodClass"
      [] call.op = "long_check" -> "LongMethod"
      [] call.op = "dup_check" -> "DuplicatedCode"

\* C20: every issue a rule's check returns has the rule's name as its
\* 'rule', an integer lineno of at least 1, an integer end_lineno of at
\* least lineno, and a message
C20_IssueSchema ==
    call.op \in {"check", "mutable_check", "god_check", "long_check",
                 "dup_check"} =>
        \A i \in 1..Len(issues) :
            /\ {"rule", "lineno", "end_lineno", "message"}
                    \subseteq DOMAIN issues[i]
            /\ issues[i].rule = EmittingRule
            /\ issues[i].lineno \in Nat
            /\ issues[i].lineno >= 1
            /\ issues[i].end_lineno \in Nat
            /\ issues[i].end_lineno >= issues[i].lineno
            /\ issues[i].message # <<>>

\* DuplicatedCodeRule.check has returned a similarity group and a duplicated
\* block whose end line is its start line
C20_Witness ==
    /\ call.op = "dup_check"
    /\ Len(issues) >= 2
    /\ \E i \in 1..Len(issues) :
            /\ issues[i].message[1] = "Duplicated code block in function '"
            /\ issues[i].end_lineno = issues[i].lineno

(***************************************************************************)
(* Runs that mix the two modes: proj/a.py holds the module that check is   *)
(* called on, proj/sub/b.py holds nothing or a module of its own, and the  *)
(* rules' check and the project analysis are called in any order on the    *)
(* same rule instances.                                                    *)
(***************************************************************************)
OtherFiles ==
    {Absent, Unparsable, Module(UnitStmts(<<"def g: return; print()">>, 1)),
     Module(UnitStmts(<<"def k: pass", "def g: return; print()">>, 1))}

\* the modules check is called on: each rule finds something in one of them
ModeUnits ==
    {<<"def g: return; print()">>, <<"def k: pass", "def g: return; print()">>,
     <<"def f(x=[])", "def g: return; print()">>,
     <<"class C: m; n", "def g: return; print()">>,
     <<"def h: pass; pass; pass; pass", "def k: pass">>,
     <<"def h: pass; pass; pass; pass", "def h: pass; pass; pass; pass">>}

InitModes ==
    /\ \E templates \in ModeUnits :
       \E other \in OtherFiles :
            /\ tree = Module(UnitStmts(templates, 1))
            /\ fs = (<<"proj", "a.py">> :> tree)
                    @@ (<<"proj", "sub", "b.py">> :> other)
    /\ \/ GodClassRule_init /\ LongMethodRule_init /\ DuplicatedCodeRule_init
       \/ /\ max_methods = 1 /\ max_cc = 35 /\ max_loc = 100
          /\ long_max_loc = 2 /\ long_max_cc = 10
          /\ similarity_threshold = Ratio(85, 100)
          /\ min_statements = 1
          /\ check_within_functions = TRUE
          /\ check_between_functions = TRUE
    /\ issues = <<>>
    /\ call = NoCall
    /\ DeadCodeRule_init
    /\ Cli_init

NextModes ==
    \/ DeadCheck
    \/ MutableCheck
    \/ GodCheck
    \/ LongCheck
    \/ DupCheck
    \/ \E root \in Roots : \E py_files \in Orderings(rglob(fs, root)) :
            AnalyzeProject(root, py_files)

SpecModes == InitModes /\ [][NextModes]_vars

(***************************************************************************)
(* C21                                                                     *)
(***************************************************************************)
\* the issue reports something that is in tree t: a definition of the name
\* it gives at its lines, or a statement of a scanned list behind a
\* terminator of that list
FoundIn(issue, t) ==
    IF issue.message[1] = "Unused "
    THEN \E node \in NodesOf(t) :
            /\ "lineno" \in DOMAIN node
            /\ node.lineno = issue.lineno
            /\ node.end_lineno = issue.end_lineno
            /\ \/ /\ node.kind \in {"FunctionDef", "ClassDef"}
                  /\ node.name = issue.message[4]
               \/ node.kind = "Name" /\ node.id = issue.message[4]
    ELSE \E L \in RuleLists(t) : \E k \in 1..Len(L) :
            /\ L[k].lineno = issue.lineno
            /\ L[k].end_lineno = issue.end_lineno
            /\ \E j \in TerminatorsOf(L) : j < k

\* C21: the issues a rule's check(tree) returns never carry 'file', also
\* when DeadCodeRule.check is called after check_project on the same
\* instance; every issue check_project returns, unused definition or
\* unreachable code, carries the 'file' of a source file that parses, and
\* what it reports is in that file.
C21_FileOnlyFromProject ==
    /\ call.op \in {"check", "mutable_check", "god_check", "long_check",
                    "dup_check"} =>
            \A i \in 1..Len(issues) : "file" \notin DOMAIN issues[i]
    /\ call.op = "check_project" =>
            \A i \in 1..Len(issues) :
                /\ "file" \in DOMAIN issues[i]
                /\ issues[i].file \in DOMAIN fs
                /\ Parses(fs, issues[i].file)
                /\ FoundIn(issues[i], fs[issues[i].file])

\* DeadCodeRule.check has returned an unreachable-code issue on an instance
\* that check_project put in project mode
C21_Witness ==
    /\ call.op = "check"
    /\ is_project_mode
    /\ UnreachableIssues(issues) # {}
    /\ all_definitions # <<>>

(***************************************************************************)
(* C22                                                                     *)
(***************************************************************************)
\* an expression statement that is a string literal
IsStringStmt(stmt) ==
    /\ stmt.kind = "Expr"
    /\ stmt.value.kind = "Constant"
    /\ stmt.value.value.py = "str"

\* C22: no unreachable-code issue points at the first statement of a
\* statement list, and a scanned list that starts with a string literal and
\* a return and goes on yields exactly one issue, which points at the
\* statement right after the return.
C22_DocstringNeverFlagged ==
    call.op = "check" =>
        /\ \A L \in AllLists(tree) : \A i \in UnreachableIssues(issues) :
                issues[i].lineno # L[1].lineno
        /\ \A L \in RuleLists(tree) :
                (Len(L) >= 3 /\ IsStringStmt(L[1]) /\ L[2].kind = "Return") =>
                    /\ Cardinality(IssuesAt(issues, L)) = 1
                    /\ \A i \in IssuesAt(issues, L) :
                            /\ issues[i].lineno = L[3].lineno
                            /\ issues[i].message = UnreachableMessage(L[2].lineno)

(***************************************************************************)
(* C23                                                                     *)
(***************************************************************************)
\* the number of calls of _calculate_similarity on the functions at lines
\* l1 and l2
TimesEvaluated(evaluated, l1, l2) ==
    Cardinality({n \in 1..Len(evaluated) : evaluated[n] = <<l1, l2>>})

\* C23: between-function detection evaluates the similarity of every pair
\* (i, j), i < j, of the qualifying functions exactly once, n(n-1)/2
\* evaluations in all, also when functions of the file share a name.
C23_EveryPairComparedOnce ==
    (call.op = "dup_check" /\ check_between_functions) =>
        Once(_extract_all_functions(tree, min_statements), LAMBDA functions :
        Once(comparePairs(NothingCompared, functions,
                          similarity_threshold).evaluated, LAMBDA evaluated :
            /\ 2 * Len(evaluated) = Len(functions) * (Len(functions) - 1)
            /\ \A i, j \in 1..Len(functions) :
                    i < j => TimesEvaluated(evaluated, functions[i].lineno,
                                            functions[j].lineno) = 1))

(***************************************************************************)
(* C24                                                                     *)
(***************************************************************************)
\* the position of file F in rglob's listing
PositionOf(py_files, F) == CHOOSE k \in 1..Len(py_files) : py_files[k] = F

\* C24: a definition of a file is never reported as unused when a file that
\* comes later in the discovery order uses or imports its name: the unused
\* decisions are made from the sets of all discovered files, in whatever
\* order they were listed.
C24_ResolvedAfterCollection ==
    call.op = "check_project" =>
        \A F \in ParsedFiles : \A G \in ParsedFiles : \A n \in C1_Names :
            (/\ PositionOf(call.py_files, F) < PositionOf(call.py_files, G)
             /\ C1_Declared(fs[F], n)
             /\ C1_Used(fs[G], n) \/ C1_Imported(fs[G], n)) =>
                UnusedIssuesIn(issues, F, n) = {}

\* a.py, listed first, defines helper and b.py, listed second, imports it:
\* check_project has returned nothing
C24_Witness ==
    /\ call.op = "check_project"
    /\ call.py_files = <<(<<"proj", "a.py">>), (<<"proj", "sub", "b.py">>)>>
    /\ fs[<<"proj", "a.py">>] = ModuleOf(<<"def helper">>)
    /\ fs[<<"proj", "sub", "b.py">>] = ModuleOf(<<"from m import helper">>)
    /\ issues = <<>>

(***************************************************************************)
(* Within-function runs: a function f whose body holds up to MaxWithin     *)
(* statements, one or two per line, alone or followed by a second          *)
(* function of the same name, checked for duplicated blocks only.          *)
(***************************************************************************)
MaxWithin == 3

WithinTemplates == {"pass", "x", "return x"}

WithinStmt(template, l) ==
    CASE template = "pass" -> Pass(l)
      [] template = "x" -> Expr(Name("x", "Load", l), l)
      [] template = "return x" -> ReturnValue(Name("x", "Load", l), l)

\* the body of the function at line first, per_line statements on each line
\* (statements that share a line are joined by ';')
WithinBody(templates, first, per_line) ==
    [i \in 1..Len(templates) |->
        WithinStmt(templates[i], first + 1 + ((i - 1) \div per_line))]

\* the module: f alone with one statement per line, f with two statements
\* per line, or f followed by a second function f
WithinLayouts == {"alone", "two per line", "two functions"}

WithinModule(templates, layout) ==
    LET per_line == IF layout = "two per line" THEN 2 ELSE 1
        f == Def("f", WithinBody(templates, 1, per_line), 1)
    IN  Module(<<f>> \o (IF layout = "two functions"
                         THEN <<Def("f", WithinBody(<<"pass", "pass">>,
                                                    f.end_lineno + 1, 1),
                                    f.end_lineno + 1)>>
                         ELSE <<>>))

\* similarity_threshold, min_statements
WithinConfigs ==
    {<<Ratio(85, 100), 1>>, <<Ratio(60, 100), 1>>, <<Ratio(85, 100), 2>>}

InitWithin ==
    /\ \E templates \in NonEmpty(TemplateSeqs(WithinTemplates, MaxWithin)) :
       \E layout \in WithinLayouts :
            tree = WithinModule(templates, layout)
    /\ \E config \in WithinConfigs :
            /\ similarity_threshold = config[1]
            /\ min_statements = config[2]
    /\ check_within_functions = TRUE
    /\ check_between_functions = FALSE
    /\ issues = <<>>
    /\ call = NoCall
    /\ fs = [p \in Paths |-> Absent]
    /\ DeadCodeRule_init
    /\ GodClassRule_init
    /\ Cli_init
    /\ LongMethodRule_init

NextWithin == DupCheck

SpecWithin == InitWithin /\ [][NextWithin]_vars

(***************************************************************************)
(* Claims about within-function detection                                  *)
(***************************************************************************)
\* the duplicated-block issues of a result list
BlockIssues(iss) ==
    {i \in 1..Len(iss) :
        /\ iss[i].rule = "DuplicatedCode"
        /\ iss[i].message[1] = "Duplicated code block in function '"}

\* the duplicated-block issues that name function f and start at one of the
\* statements of its body
BlockIssuesFor(iss, f) ==
    {i \in BlockIssues(iss) :
        /\ iss[i].message[2] = f.name
        /\ \E k \in 1..Len(f.body) : f.body[k].lineno = iss[i].lineno}

\* the pairs of windows, by position in scan order, that do not overlap and
\* whose similarity meets the threshold
MeetingPairs(blocks, threshold) ==
    LET pairs == pairOrder(Len(blocks))
    IN  {n \in 1..Len(pairs) :
            LET block1 == blocks[pairs[n][1]]
                block2 == blocks[pairs[n][2]]
            IN  /\ \/ block1.end_line < block2.start_line
                   \/ block2.end_line < block1.start_line
                /\ RatioGeq(_calculate_similarity(block1.normalized,
                                                  block2.normalized),
                            threshold)}

\* the issue for the pair of windows at position n of the scan order
IssueOfPair(f, blocks, n) ==
    LET pair == pairOrder(Len(blocks))[n]
        block1 == blocks[pair[1]]
        block2 == blocks[pair[2]]
    IN  [rule |-> "DuplicatedCode", lineno |-> block1.start_line,
         end_lineno |-> block1.end_line,
         message |-> DuplicatedBlockMessage(f, block1, block2,
                        _calculate_similarity(block1.normalized,
                                              block2.normalized))]

\* C25: within-function detection reports at most one issue per function:
\* none for a function with fewer than 2 x min_statements statements or
\* without a pair of non-overlapping windows that meets the threshold, and
\* otherwise the one issue that describes the first such pair in scan order.
C25_FirstPairOnly ==
    (call.op = "dup_check" /\ check_within_functions) =>
        \A f \in FunctionsOf(tree) :
            Once(BlockIssuesFor(issues, f), LAMBDA mine :
            Once(_extract_code_blocks(f.body, min_statements, f.name, f.lineno),
                 LAMBDA blocks :
            Once(MeetingPairs(blocks, similarity_threshold), LAMBDA meeting :
                IF Len(f.body) < 2 * min_statements \/ meeting = {}
                THEN mine = {}
                ELSE /\ Cardinality(mine) = 1
                     /\ \A i \in mine :
                            issues[i] = IssueOfPair(f, blocks, Min(meeting)))))

\* a function whose first statement starts no reported window: the one issue
\* describes a pair met later in the scan
C25_Witness ==
    /\ call.op = "dup_check"
    /\ Len(tree.body) = 1
    /\ Cardinality(BlockIssues(issues)) = 1
    /\ \A i \in BlockIssues(issues) :
            issues[i].lineno > tree.body[1].body[1].lineno

\* the issue names the windows body[a..b] and body[c..d] of function f by
\* their lines and the size of the first
NamesWindows(issue, f, a, b, c, d) ==
    /\ issue.message[2] = f.name
    /\ issue.lineno = f.body[a].lineno
    /\ issue.end_lineno = f.body[b].lineno
    /\ issue.message[6] = ToString(f.body[a].lineno)
    /\ issue.message[8] = ToString(f.body[b].lineno)
    /\ issue.message[10] = ToString(f.body[c].lineno)
    /\ issue.message[12] = ToString(f.body[d].lineno)
    /\ issue.message[14] = ToString(b - a + 1)

\* C26: the two blocks named by a within-function issue are windows of one
\* function's body that share no statement, the first wholly before the
\* second, and the line ranges the issue gives for them do not intersect.
C26_ReportedBlocksDisjoint ==
    call.op = "dup_check" =>
        \A i \in BlockIssues(issues) :
            \E f \in FunctionsOf(tree) : \E a, b, c, d \in 1..Len(f.body) :
                /\ a <= b /\ b < c /\ c <= d
                /\ NamesWindows(issues[i], f, a, b, c, d)
                /\ f.body[b].lineno < f.body[c].lineno

\* a duplicated block has been reported in a function whose statements
\* share lines
C26_Witness ==
    /\ call.op = "dup_check"
    /\ BlockIssues(issues) # {}
    /\ \E f \in FunctionsOf(tree) :
            Len(f.body) >= 2 /\ f.body[1].lineno = f.body[2].lineno

(***************************************************************************)
(* Block runs: _extract_code_blocks is applied to the body of a function   *)
(* of up to MaxBlockStmts statements, one per line, with a minimum block   *)
(* size of MinSizes.                                                       *)
(***************************************************************************)
MaxBlockStmts == 6

MinSizes == {1, 2, 3}

BlockTemplates == {"pass", "x"}

InitBlocks ==
    /\ \E templates \in NonEmpty(TemplateSeqs(BlockTemplates, MaxBlockStmts)) :
            tree = WithinModule(templates, "alone")
    /\ min_statements \in MinSizes
    /\ similarity_threshold = Ratio(85, 100)
    /\ check_within_functions = TRUE
    /\ check_between_functions = TRUE
    /\ issues = <<>>
    /\ call = NoCall
    /\ fs = [p \in Paths |-> Absent]
    /\ DeadCodeRule_init
    /\ GodClassRule_init
    /\ Cli_init
    /\ LongMethodRule_init

\* self._extract_code_blocks(func['body'], self.min_statements,
\* f"function:{func['name']}", func['lineno']) on the function of the module
ExtractCodeBlocks ==
    /\ call' = [op |-> "extract_code_blocks",
                blocks |-> _extract_code_blocks(tree.body[1].body,
                                min_statements,
                                "function:" \o tree.body[1].name,
                                tree.body[1].lineno)]
    /\ UNCHANGED <<tree, issues, deadVars, godVars, cliVars, longVars, dupVars>>

NextBlocks == ExtractCodeBlocks

SpecBlocks == InitBlocks /\ [][NextBlocks]_vars

(***************************************************************************)
(* C27                                                                     *)
(***************************************************************************)
\* the windows <<i, w>> of n statements: start i (from 1), size w, with
\* min <= w <= min + 4 and the window inside the list
WindowsOf(n, min) ==
    {win \in (1..n) \X (min..(min + 4)) : win[1] + win[2] - 1 <= n}

\* block is the window of size w that starts at statement i
IsWindow(block, statements, i, w) ==
    /\ block.start_line = statements[i].lineno
    /\ block.end_line = statements[i + w - 1].lineno
    /\ block.statements = w
    /\ block.normalized = normalizedOf(SubSeq(statements, i, i + w - 1))

\* C27: for n >= min_statements statements, _extract_code_blocks returns
\* each contiguous window of min_statements to min_statements + 4 statements
\* exactly once and nothing else; a block's statement count is its window
\* size and its end_line is not before its start_line.
C27_ExactlyTheWindows ==
    (call.op = "extract_code_blocks"
     /\ Len(tree.body[1].body) >= min_statements) =>
        LET statements == tree.body[1].body
            windows == WindowsOf(Len(statements), min_statements)
        IN  /\ Len(call.blocks) = Cardinality(windows)
            /\ \A win \in windows :
                    Cardinality({k \in 1..Len(call.blocks) :
                        IsWindow(call.blocks[k], statements,
                                 win[1], win[2])}) = 1
            /\ \A k \in 1..Len(call.blocks) :
                    /\ call.blocks[k].end_line >= call.blocks[k].start_line
                    /\ call.blocks[k].statements =
                            call.blocks[k].end_line
                                - call.blocks[k].start_line + 1

\* six statements and a minimum of one: the twenty windows of one to five
\* statements, the window of all six left out
C27_Witness ==
    /\ call.op = "extract_code_blocks"
    /\ Len(tree.body[1].body) = 6
    /\ min_statements = 1
    /\ Len(call.blocks) = 20

(***************************************************************************)
(* Flag runs: the modules of the duplicated-code runs, checked by a rule   *)
(* constructed with each combination of check_within_functions and         *)
(* check_between_functions, with a minimum of FlagMinimums statements.     *)
(***************************************************************************)
FlagMinimums == {1, 4}

InitFlags ==
    /\ \E c1 \in SlotChoices(1), c2 \in SlotChoices(2),
          c3 \in SlotChoices(3), c4 \in SlotChoices(4) :
            tree = Module(DupFunctions(<<c1, c2, c3, c4>>, 1, 1))
    /\ similarity_threshold = Ratio(60, 100)
    /\ min_statements \in FlagMinimums
    /\ check_within_functions \in BOOLEAN
    /\ check_between_functions \in BOOLEAN
    /\ issues = <<>>
    /\ call = NoCall
    /\ fs = [p \in Paths |-> Absent]
    /\ DeadCodeRule_init
    /\ GodClassRule_init
    /\ Cli_init
    /\ LongMethodRule_init

NextFlags == DupCheck

SpecFlags == InitFlags /\ [][NextFlags]_vars

(***************************************************************************)
(* C28                                                                     *)
(***************************************************************************)
\* C28: check returns similarity-group issues only when
\* check_between_functions is set and at least two functions qualify, and
\* duplicated-block issues only when check_within_functions is set; it
\* returns nothing with both flags off, and nothing with fewer than two
\* qualifying functions and check_within_functions off.
C28_FlagsGateDetection ==
    call.op = "dup_check" =>
        LET qualifying == Len(_extract_all_functions(tree, min_statements))
        IN  /\ GroupIssues(issues) \cup BlockIssues(issues)
                    = 1..Len(issues)
            /\ GroupIssues(issues) # {} =>
                    check_between_functions /\ qualifying >= 2
            /\ BlockIssues(issues) # {} => check_within_functions
            /\ (~check_between_functions /\ ~check_within_functions) =>
                    issues = <<>>
            /\ (qualifying < 2 /\ ~check_within_functions) =>
                    issues = <<>>

\* both flags off and nothing returned for a module in which the rule with
\* both flags on finds similar functions and a duplicated block
C28_Witness ==
    /\ call.op = "dup_check"
    /\ ~check_between_functions
    /\ ~check_within_functions
    /\ issues = <<>>
    /\ LET found == DuplicatedCode_check(tree, similarity_threshold,
                                         min_statements, TRUE, TRUE)
       IN  GroupIssues(found) # {} /\ BlockIssues(found) # {}

(***************************************************************************)
(* C29                                                                     *)
(***************************************************************************)
\* the qualifying functions whose similarity with another qualifying
\* function meets the threshold
SimilarToAnother(functions, threshold) ==
    {i \in 1..Len(functions) :
        \E j \in 1..Len(functions) :
            /\ j # i
            /\ RatioGeq(_calculate_similarity(functions[i].normalized,
                                              functions[j].normalized),
                        threshold)}

\* C29: every qualifying function whose similarity with some other
\* qualifying function meets the threshold is named, with its line, in a
\* similarity-group issue of the result.
C29_SimilarFunctionsReported ==
    (call.op = "dup_check" /\ check_between_functions) =>
        Once(_extract_all_functions(tree, min_statements), LAMBDA functions :
            \A i \in SimilarToAnother(functions, similarity_threshold) :
                \E g \in GroupIssues(issues) :
                    <<functions[i].name, ToString(functions[i].lineno)>>
                        \in MembersOf(issues[g]))

(***************************************************************************)
(* One-file projects: a.py holds a module of up to MaxFileStmts statements *)
(* of OneFileTemplates, with or without a function that has code after its *)
(* return; b.py is missing or does not parse. The one DeadCodeRule checks  *)
(* the module through check(tree) and the project through check_project.   *)
(***************************************************************************)
OneFileTemplates ==
    {"def helper", "helper = 1", "def _private", "helper()",
     "from m import helper", "nested def helper"}

InitOneFile ==
    /\ \E templates \in TemplateSeqs(OneFileTemplates, MaxFileStmts) :
       \E units \in {<<>>, <<"def g: return; print()">>} :
            tree = Module(ModuleOf(templates).body
                          \o UnitStmts(units, 2 * Len(templates) + 1))
    /\ \E other \in {Absent, Unparsable} :
            fs = (<<"proj", "a.py">> :> tree)
                 @@ (<<"proj", "sub", "b.py">> :> other)
    /\ issues = <<>>
    /\ call = NoCall
    /\ DeadCodeRule_init
    /\ GodClassRule_init
    /\ Cli_init
    /\ LongMethodRule_init
    /\ DuplicatedCodeRule_init

NextOneFile ==
    \/ DeadCheck
    \/ \E root \in Roots : \E py_files \in Orderings(rglob(fs, root)) :
            AnalyzeProject(root, py_files)

SpecOneFile == InitOneFile /\ [][NextOneFile]_vars

(***************************************************************************)
(* C30                                                                     *)
(***************************************************************************)
\* an issue without its 'file' field
WithoutFile(issue) == [k \in DOMAIN issue \ {"file"} |-> issue[k]]

\* C30: when the project root holds exactly one source file that parses,
\* the issues of check_project, their 'file' field set aside, are the issues
\* of check on that file's tree (same rule, lineno, end_lineno and message),
\* and each of them carries that file as 'file'.
C30_ModesAgreeOnOneFile ==
    call.op = "check_project" =>
        \A F \in ParsedFiles :
            ParsedFiles = {F} =>
                LET single == DeadCode_check(fs[F], FALSE)
                IN  /\ {WithoutFile(issues[i]) : i \in 1..Len(issues)}
                            = {single[i] : i \in 1..Len(single)}
                    /\ \A i \in 1..Len(issues) :
                            /\ "file" \in DOMAIN issues[i]
                            /\ issues[i].file = F

\* check_project on the root of a one-file project reports an unused
\* definition and an unreachable statement, while a used definition of the
\* same file is not reported
C30_Witness ==
    /\ call.op = "check_project"
    /\ ParsedFiles = {<<"proj", "a.py">>}
    /\ UnreachableIssues(issues) # {}
    /\ UnusedIssuesNaming(issues, "g") # {}
    /\ UnusedIssuesNaming(issues, "helper") = {}
    /\ C1_Declared(fs[<<"proj", "a.py">>], "helper")

====
